---- MODULE Spec2Model ----
(***************************************************************************)
(* Day 10 "button machine" optimizer of advent-of-code-2025:               *)
(*   - the GF(2) toggle solver       (solveMachineLights / solveMachine),  *)
(*   - the parity reduction solver   (solveMachineJoltage),                *)
(*   - the batch aggregator          (solvePart1 / solvePart2).            *)
(* Arrays keep the source's 0-based indices: an array of length n is a     *)
(* function with domain 0..n-1.  A button is only ever read through        *)
(* Array.includes, so it is the set of the indices it lists.               *)
(***************************************************************************)
EXTENDS Integers, Sequences, FiniteSets, TLC

VARIABLES lights, jolt, batch, parse, prog, uf, day11, dial

vars == <<lights, jolt, batch, parse, prog, uf, day11, dial>>

(***************************************************************************)
(* Bounds of the model.                                                    *)
(***************************************************************************)
MaxLights == 2
MaxButtons == 3
MaxCounters == 2
MaxJoltButtons == 2
MaxJoltage == 2
MaxBatch == 3
MaxGroups == 2
MaxPresses == 2
MaxInput == 2

(***************************************************************************)
(* Generic helpers.                                                        *)
(***************************************************************************)
Length(a) == Cardinality(DOMAIN a)

EmptyArray == [i \in {} |-> 0]

Push(a, x) == [i \in 0..Length(a) |-> IF i < Length(a) THEN a[i] ELSE x]

RECURSIVE Pow2(_)
Pow2(n) == IF n <= 0 THEN 1 ELSE 2 * Pow2(n - 1)

\* JavaScript `1 << n`: the shift count is taken modulo 32 and the result is a
\* signed 32-bit integer.
Shl1(n) == IF n % 32 = 31 THEN 0 - Pow2(30) - Pow2(30) ELSE Pow2(n % 32)

\* JavaScript `(mask >> b) & 1` / `mask & (1 << b)` for 0 <= mask < 2^31: the
\* shift count is taken modulo 32, and bit 31 of such a mask is 0.
Bit(mask, b) == IF b % 32 = 31 THEN 0 ELSE (mask \div Pow2(b % 32)) % 2

RECURSIVE SumOver(_, _)
SumOver(a, n) == IF n <= 0 THEN 0 ELSE a[n - 1] + SumOver(a, n - 1)

\* solution.reduce((a, b) => a + b, 0)
Sum(a) == SumOver(a, Length(a))

\* The array of the elements of the sequence q.
Arr(q) == [i \in 0..(Len(q) - 1) |-> q[i + 1]]

\* JavaScript Infinity: above every press count.
Infinity == 1000000

\* The "no solution" return value of the toggle solver.
Unsolvable == 0 - 1

(***************************************************************************)
(* Machine                                                                 *)
(***************************************************************************)
Machine(t, b, j) == [target |-> t, buttons |-> b, joltage |-> j]

Arrays(n, S) == [0..(n - 1) -> S]

ArraysUpTo(n, S) == UNION {Arrays(k, S) : k \in 0..n}

(***************************************************************************)
(* GF(2) toggle solver: solveMachineLights, one step per loop iteration.   *)
(***************************************************************************)
NumLights(s) == Length(s.machine.target)

NumButtons(s) == Length(s.machine.buttons)

IdleLights ==
  [machine |-> Machine(EmptyArray, EmptyArray, EmptyArray), pc |-> "idle",
   matrix |-> EmptyArray, rank |-> 0, pivotCol |-> EmptyArray, col |-> 0,
   freeVars |-> EmptyArray, mask |-> 0, minPresses |-> Infinity,
   solution |-> EmptyArray, ret |-> Infinity]

StartLights(m) == [IdleLights EXCEPT !.machine = m, !.pc = "build"]

\* Build augmented matrix [A | b] over GF(2).
BuildMatrix(s) ==
  LET m == s.machine
      nb == NumButtons(s)
  IN [s EXCEPT
        !.matrix = [i \in 0..(NumLights(s) - 1) |->
                      [j \in 0..nb |->
                         IF j < nb THEN i \in m.buttons[j] ELSE m.target[i]]],
        !.rank = 0, !.pivotCol = EmptyArray, !.col = 0, !.pc = "eliminate"]

ElimGuard(s) == s.col < NumButtons(s) /\ s.rank < NumLights(s)

\* The first row at or below `rank` with a 1 in column col, or -1.
FindPivotRow(s) ==
  LET rows == {r \in s.rank..(NumLights(s) - 1) : s.matrix[r][s.col]}
  IN IF rows = {} THEN 0 - 1
     ELSE CHOOSE r \in rows : \A q \in rows : r <= q

SwapRows(mx, a, b) ==
  [r \in DOMAIN mx |-> IF r = a THEN mx[b] ELSE IF r = b THEN mx[a] ELSE mx[r]]

\* Mutation: forward elimination only: the rows above the pivot row are kept.
EliminateBelow(mx, rank, col) ==
  [r \in DOMAIN mx |->
     IF r > rank /\ mx[r][col]
       THEN [c \in DOMAIN mx[r] |-> mx[r][c] # mx[rank][c]]
       ELSE mx[r]]

\* XOR the pivot row into every other row with a 1 in the pivot column.
EliminateColumn(mx, rank, col) ==
  [r \in DOMAIN mx |->
     IF r # rank /\ mx[r][col]
       THEN [c \in DOMAIN mx[r] |-> mx[r][c] # mx[rank][c]]
       ELSE mx[r]]

\* One iteration of the Gaussian elimination loop.
ElimColumn(s) ==
  LET pivotRow == FindPivotRow(s)
  IN IF pivotRow = 0 - 1
       THEN [s EXCEPT !.col = s.col + 1]
       ELSE [s EXCEPT
               !.matrix = EliminateColumn(SwapRows(s.matrix, s.rank, pivotRow),
                                          s.rank, s.col),
               !.pivotCol = Push(s.pivotCol, s.col),
               !.rank = s.rank + 1,
               !.col = s.col + 1]

\* Mutation: the scan for an inconsistent row starts one row too low.
InconsistentSkipsRow(s) ==
  \E row \in (s.rank + 1)..(NumLights(s) - 1) : s.matrix[row][NumButtons(s)]

Inconsistent(s) ==
  \E row \in s.rank..(NumLights(s) - 1) : s.matrix[row][NumButtons(s)]

RECURSIVE FreeVarsFrom(_, _, _)
FreeVarsFrom(pivotSet, col, nb) ==
  IF col >= nb THEN EmptyArray
  ELSE LET rest == FreeVarsFrom(pivotSet, col + 1, nb)
       IN IF col \in pivotSet THEN rest
          ELSE [i \in 0..Length(rest) |-> IF i = 0 THEN col ELSE rest[i - 1]]

\* The columns that are no pivot, in increasing order.
FreeVars(s) ==
  FreeVarsFrom({s.pivotCol[r] : r \in DOMAIN s.pivotCol}, 0, NumButtons(s))

\* The loop that looks for an inconsistent row, then the free variables.
CheckConsistency(s) ==
  IF Inconsistent(s)
    THEN [s EXCEPT !.ret = Unsolvable, !.pc = "done"]
    ELSE [s EXCEPT !.freeVars = FreeVars(s), !.mask = 0,
                   !.minPresses = Infinity, !.pc = "enumerate"]

\* Mutation: every free variable takes bit 0 of the mask.
SetFreeVarsFirstBit(s, mask) ==
  [c \in 0..(NumButtons(s) - 1) |->
     \E i \in DOMAIN s.freeVars : s.freeVars[i] = c /\ Bit(mask, 0) # 0]

\* Free variables of the assignment for `mask`; the others start false.
SetFreeVars(s, mask) ==
  [c \in 0..(NumButtons(s) - 1) |->
     \E i \in DOMAIN s.freeVars : s.freeVars[i] = c /\ Bit(mask, i) # 0]

\* Mutation: a pivot variable takes the target bit of its row, whatever the
\* free variables to its right.
RECURSIVE BackSubstituteNoFlips(_, _, _)
BackSubstituteNoFlips(s, r, solution) ==
  IF r < 0 THEN solution
  ELSE BackSubstituteNoFlips(s, r - 1,
         [solution EXCEPT ![s.pivotCol[r]] = s.matrix[r][NumButtons(s)]])

RECURSIVE BackSubstitute(_, _, _)
BackSubstitute(s, r, solution) ==
  IF r < 0 THEN solution
  ELSE LET col == s.pivotCol[r]
           flips == {c \in (col + 1)..(NumButtons(s) - 1) :
                       s.matrix[r][c] /\ solution[c]}
           value == s.matrix[r][NumButtons(s)] # (Cardinality(flips) % 2 = 1)
       IN BackSubstitute(s, r - 1, [solution EXCEPT ![col] = value])

SolutionFor(s, mask) == BackSubstitute(s, s.rank - 1, SetFreeVars(s, mask))

\* Mutation: the length of the assignment, whatever its values.
PressesCountsAll(solution) == Cardinality(DOMAIN solution)

\* solution.filter(x => x).length
Presses(solution) == Cardinality({c \in DOMAIN solution : solution[c]})

EnumGuard(s) == s.mask < Shl1(Length(s.freeVars))

\* Mutation: the weight of the last assignment replaces the minimum.
TryMaskKeepsLast(s) ==
  LET solution == SolutionFor(s, s.mask)
  IN [s EXCEPT !.solution = solution, !.minPresses = Presses(solution),
               !.mask = s.mask + 1]

\* One iteration of the loop over the assignments of the free variables.
TryMask(s) ==
  LET solution == SolutionFor(s, s.mask)
      presses == Presses(solution)
  IN [s EXCEPT !.solution = solution,
               !.minPresses = IF presses < s.minPresses THEN presses
                              ELSE s.minPresses,
               !.mask = s.mask + 1]

\* Mutation: `minPresses || -1`: a minimum of 0 is returned as Unsolvable.
ReturnMinZeroIsFalsy(s) ==
  [s EXCEPT !.ret = IF s.minPresses = 0 THEN Unsolvable ELSE s.minPresses,
            !.pc = "done"]

ReturnMin(s) == [s EXCEPT !.ret = s.minPresses, !.pc = "done"]

(***************************************************************************)
(* Parity reduction solver: solveMachineJoltage.  `T | null` is a sequence *)
(* of length at most one: Null, or Some(value).                            *)
(***************************************************************************)
Null == <<>>

Some(x) == <<x>>

IsNull(x) == Len(x) = 0

Val(x) == x[1]

NullResult == [cost |-> Null, solution |-> Null]

\* new Array(numButtons).fill(0)
Zeros(n) == [b \in 0..(n - 1) |-> 0]

DigitChars == <<"0", "1", "2", "3", "4", "5", "6", "7", "8", "9">>

\* String(n) for an integer n >= 0, as the sequence of its characters.
RECURSIVE NumberToString(_)
NumberToString(n) ==
  IF n < 10 THEN <<DigitChars[n + 1]>>
  ELSE NumberToString(n \div 10) \o <<DigitChars[(n % 10) + 1]>>

RECURSIVE JoinFrom(_, _)
JoinFrom(tgt, i) ==
  IF i >= Length(tgt) THEN <<>>
  ELSE (IF i = 0 THEN <<>> ELSE <<",">>) \o NumberToString(tgt[i])
         \o JoinFrom(tgt, i + 1)

\* tgt.join(','): the memo key.
Join(tgt) == JoinFrom(tgt, 0)

\* The number of the buttons selected by `mask` that touch counter j.
Touching(mask, m, j) ==
  Cardinality({b \in DOMAIN m.buttons : Bit(mask, b) = 1 /\ j \in m.buttons[b]})

RECURSIVE ParityBits(_, _, _, _)
ParityBits(mask, m, numCounters, j) ==
  IF j >= numCounters THEN 0
  ELSE (IF Touching(mask, m, j) % 2 = 1 THEN Shl1(j) ELSE 0)
         + ParityBits(mask, m, numCounters, j + 1)

\* computeParity: bit j is set iff an odd number of selected buttons touch j.
ComputeParity(buttonMask, m, numCounters) ==
  ParityBits(buttonMask, m, numCounters, 0)

\* Mutation: the empty selection is left out of the table.
PatternsForSkipsEmpty(m, parity, bound) ==
  LET S == {mask \in 1..(bound - 1) :
              ComputeParity(mask, m, Length(m.joltage)) = parity}
  IN [i \in 0..(Cardinality(S) - 1) |->
        CHOOSE x \in S : Cardinality({y \in S : y < x}) = i]

\* The masks below `bound` whose parity is `parity`, in increasing order: the
\* order in which precomputeParityPatterns pushes them.
PatternsFor(m, parity, bound) ==
  LET S == {mask \in 0..(bound - 1) :
              ComputeParity(mask, m, Length(m.joltage)) = parity}
  IN [i \in 0..(Cardinality(S) - 1) |->
        CHOOSE x \in S : Cardinality({y \in S : y < x}) = i]

\* precomputeParityPatterns: parity |-> the masks producing it.
PrecomputeParityPatterns(m) ==
  LET bound == Shl1(Length(m.buttons))
      parities ==
        {ComputeParity(mask, m, Length(m.joltage)) : mask \in 0..(bound - 1)}
  IN [p \in parities |-> PatternsFor(m, p, bound)]

\* The parity of the target: bit i is set iff tgt[i] is odd.
RECURSIVE TargetParity(_, _)
TargetParity(tgt, i) ==
  IF i >= Length(tgt) THEN 0
  ELSE (IF tgt[i] % 2 = 1 THEN Shl1(i) ELSE 0) + TargetParity(tgt, i + 1)

\* newVal of applyPattern, per counter.
NewVal(pattern, target, m, j) == target[j] - Touching(pattern, m, j)

\* Mutation: the remainder is not halved.
ApplyPatternNoHalving(pattern, target, m) ==
  IF \E j \in DOMAIN target :
       NewVal(pattern, target, m, j) < 0 \/ NewVal(pattern, target, m, j) % 2 = 1
    THEN Null
    ELSE Some([j \in DOMAIN target |-> NewVal(pattern, target, m, j)])

\* Mutation: a pattern that brings a counter to exactly 0 is rejected.
ApplyPatternRejectsZero(pattern, target, m) ==
  IF \E j \in DOMAIN target :
       NewVal(pattern, target, m, j) <= 0 \/ NewVal(pattern, target, m, j) % 2 = 1
    THEN Null
    ELSE Some([j \in DOMAIN target |-> NewVal(pattern, target, m, j) \div 2])

\* applyPattern: the halved remainder, or null.
ApplyPattern(pattern, target, m) ==
  IF \E j \in DOMAIN target :
       NewVal(pattern, target, m, j) < 0 \/ NewVal(pattern, target, m, j) % 2 = 1
    THEN Null
    ELSE Some([j \in DOMAIN target |-> NewVal(pattern, target, m, j) \div 2])

\* Mutation: only the lowest bit is counted.
CountBitsLowest(n) == IF n > 0 THEN n % 2 ELSE 0

RECURSIVE CountBits(_)
CountBits(n) == IF n > 0 THEN (n % 2) + CountBits(n \div 2) ELSE 0

\* Mutation: the pattern's own press is not added.
CombineSolutionDropsBit(pattern, subSolution) ==
  [b \in DOMAIN subSolution |-> subSolution[b] * 2]

CombineSolution(pattern, subSolution) ==
  [b \in DOMAIN subSolution |->
     IF Bit(pattern, b) = 1 THEN subSolution[b] * 2 + 1 ELSE subSolution[b] * 2]

\* One activation of solveRecursive.
Frame(tgt) ==
  [tgt |-> tgt, key |-> <<>>, patterns |-> EmptyArray, i |-> 0,
   best |-> NullResult]

\* The locals of solveMachineJoltage, the activations of solveRecursive
\* (innermost last), the value being returned, and `calls`: the history of
\* the targets solveRecursive has been called with.
IdleJolt ==
  [machine |-> Machine(EmptyArray, EmptyArray, EmptyArray), pc |-> "idle",
   parityPatterns |-> EmptyArray, memo |-> EmptyArray, stack |-> <<>>,
   result |-> NullResult, calls |-> <<>>, ret |-> Null]

StartJolt(m) == [IdleJolt EXCEPT !.machine = m, !.pc = "start"]

Top(s) == s.stack[Len(s.stack)]

SetTop(s, f) == [s.stack EXCEPT ![Len(s.stack)] = f]

MemoSet(memo, key, r) ==
  [k \in DOMAIN memo \cup {key} |-> IF k = key THEN r ELSE memo[k]]

\* Mutation: the memo is not created by the call: it still holds the entry
\* of the machine that solvePart2 solved just before.
JoltBeginSharedMemo(s) ==
  LET m == s.machine
      last == IF batch.fn = "part2" THEN Len(batch.results) ELSE 0
      left == IF last = 0 THEN EmptyArray
              ELSE MemoSet(EmptyArray, Join(batch.machines[last - 1].joltage),
                           [cost |-> IF IsNull(batch.results[last]) THEN Null
                                     ELSE Some(Sum(Val(batch.results[last]))),
                            solution |-> batch.results[last]])
  IN IF Length(m.joltage) = 0
       THEN [s EXCEPT !.ret = Some(Zeros(Length(m.buttons))), !.pc = "done"]
       ELSE [s EXCEPT !.parityPatterns = PrecomputeParityPatterns(m),
                      !.memo = left,
                      !.stack = <<Frame(m.joltage)>>,
                      !.calls = <<m.joltage>>,
                      !.pc = "call"]

\* solveMachineJoltage up to the first call of solveRecursive.
JoltBegin(s) ==
  LET m == s.machine
  IN IF Length(m.joltage) = 0
       THEN [s EXCEPT !.ret = Some(Zeros(Length(m.buttons))), !.pc = "done"]
       ELSE [s EXCEPT !.parityPatterns = PrecomputeParityPatterns(m),
                      !.memo = EmptyArray,
                      !.stack = <<Frame(m.joltage)>>,
                      !.calls = <<m.joltage>>,
                      !.pc = "call"]

\* Mutation: the memo is written but never read.
JoltEnterIgnoresMemo(s) ==
  LET f == Top(s)
      key == Join(f.tgt)
      parity == TargetParity(f.tgt, 0)
      found == parity \in DOMAIN s.parityPatterns
  IN IF \A i \in DOMAIN f.tgt : f.tgt[i] = 0
       THEN [s EXCEPT
               !.result = [cost |-> Some(0),
                           solution |-> Some(Zeros(Length(s.machine.buttons)))],
               !.pc = "return"]
     ELSE IF ~found \/ Length(s.parityPatterns[parity]) = 0
       THEN [s EXCEPT !.memo = MemoSet(s.memo, key, NullResult),
                      !.result = NullResult, !.pc = "return"]
     ELSE [s EXCEPT
             !.stack = SetTop(s, [f EXCEPT !.key = key,
                                           !.patterns = s.parityPatterns[parity],
                                           !.i = 0, !.best = NullResult]),
             !.pc = "loop"]

\* solveRecursive from its entry to the pattern loop.
JoltEnter(s) ==
  LET f == Top(s)
      key == Join(f.tgt)
      parity == TargetParity(f.tgt, 0)
      found == parity \in DOMAIN s.parityPatterns
  IN IF \A i \in DOMAIN f.tgt : f.tgt[i] = 0
       THEN [s EXCEPT
               !.result = [cost |-> Some(0),
                           solution |-> Some(Zeros(Length(s.machine.buttons)))],
               !.pc = "return"]
     ELSE IF key \in DOMAIN s.memo
       THEN [s EXCEPT !.result = s.memo[key], !.pc = "return"]
     ELSE IF ~found \/ Length(s.parityPatterns[parity]) = 0
       THEN [s EXCEPT !.memo = MemoSet(s.memo, key, NullResult),
                      !.result = NullResult, !.pc = "return"]
     ELSE [s EXCEPT
             !.stack = SetTop(s, [f EXCEPT !.key = key,
                                           !.patterns = s.parityPatterns[parity],
                                           !.i = 0, !.best = NullResult]),
             !.pc = "loop"]

LoopGuard(s) == Top(s).i < Length(Top(s).patterns)

\* Mutation: the outermost activation halves machine.joltage in place.
JoltIterateInPlace(s) ==
  LET f == Top(s)
      newTarget == ApplyPattern(f.patterns[f.i], f.tgt, s.machine)
  IN IF IsNull(newTarget)
       THEN [s EXCEPT !.stack = SetTop(s, [f EXCEPT !.i = f.i + 1])]
       ELSE [s EXCEPT !.machine.joltage =
                         IF Len(s.stack) = 1 THEN Val(newTarget) ELSE @,
                      !.stack = Append(s.stack, Frame(Val(newTarget))),
                      !.calls = Append(s.calls, Val(newTarget)),
                      !.pc = "call"]

\* The head of one iteration of the pattern loop: skip the pattern or recurse.
JoltIterate(s) ==
  LET f == Top(s)
      newTarget == ApplyPattern(f.patterns[f.i], f.tgt, s.machine)
  IN IF IsNull(newTarget)
       THEN [s EXCEPT !.stack = SetTop(s, [f EXCEPT !.i = f.i + 1])]
       ELSE [s EXCEPT !.stack = Append(s.stack, Frame(Val(newTarget))),
                      !.calls = Append(s.calls, Val(newTarget)),
                      !.pc = "call"]

\* The end of the pattern loop: memo.set(key, bestResult); return bestResult.
JoltFinish(s) ==
  LET f == Top(s)
  IN [s EXCEPT !.memo = MemoSet(s.memo, f.key, f.best),
               !.result = f.best, !.pc = "return"]

\* Mutation: a pattern whose recursive call fails is taken at its own cost.
FoldKeepsFailure(f, subResult) ==
  LET pattern == f.patterns[f.i]
  IN IF IsNull(subResult.cost) \/ IsNull(subResult.solution)
       THEN [cost |-> Some(CountBits(pattern)),
             solution |-> Some(CombineSolution(pattern, Zeros(Length(f.tgt))))]
       ELSE LET totalCost == CountBits(pattern) + 2 * Val(subResult.cost)
            IN IF IsNull(f.best.cost) \/ totalCost < Val(f.best.cost)
                 THEN [cost |-> Some(totalCost),
                       solution |->
                         Some(CombineSolution(pattern, Val(subResult.solution)))]
                 ELSE f.best

\* Mutation: every successful pattern replaces the best one.
FoldKeepsLast(f, subResult) ==
  LET pattern == f.patterns[f.i]
  IN IF IsNull(subResult.cost) \/ IsNull(subResult.solution)
       THEN f.best
       ELSE [cost |-> Some(CountBits(pattern) + 2 * Val(subResult.cost)),
             solution |->
               Some(CombineSolution(pattern, Val(subResult.solution)))]

\* Mutation: the cost leaves out the presses of the pattern itself.
FoldCostWithoutPattern(f, subResult) ==
  LET pattern == f.patterns[f.i]
  IN IF IsNull(subResult.cost) \/ IsNull(subResult.solution)
       THEN f.best
       ELSE LET totalCost == 2 * Val(subResult.cost)
            IN IF IsNull(f.best.cost) \/ totalCost < Val(f.best.cost)
                 THEN [cost |-> Some(totalCost),
                       solution |->
                         Some(CombineSolution(pattern, Val(subResult.solution)))]
                 ELSE f.best

\* The rest of the caller's iteration, given the callee's result.
Fold(f, subResult) ==
  LET pattern == f.patterns[f.i]
  IN IF IsNull(subResult.cost) \/ IsNull(subResult.solution)
       THEN f.best
       ELSE LET totalCost == CountBits(pattern) + 2 * Val(subResult.cost)
            IN IF IsNull(f.best.cost) \/ totalCost < Val(f.best.cost)
                 THEN [cost |-> Some(totalCost),
                       solution |->
                         Some(CombineSolution(pattern, Val(subResult.solution)))]
                 ELSE f.best

\* A return of solveRecursive: to the pattern loop of its caller, or to
\* solveMachineJoltage, which returns result.solution.
JoltReturn(s) ==
  LET rest == SubSeq(s.stack, 1, Len(s.stack) - 1)
  IN IF Len(rest) = 0
       THEN [s EXCEPT !.stack = rest, !.ret = s.result.solution, !.pc = "done"]
       ELSE LET f == rest[Len(rest)]
            IN [s EXCEPT
                  !.stack = [rest EXCEPT ![Len(rest)] =
                               [f EXCEPT !.best = Fold(f, s.result),
                                         !.i = f.i + 1]],
                  !.pc = "loop"]

(***************************************************************************)
(* Optimize of z3-solver, by its contract: the minimum of the objective    *)
(* over the models of the constraints, or unsat.  The constraints of       *)
(* day10-z3.ts are x_j >= 0 and, per counter, the sum of the touching x_j  *)
(* equal to its joltage; the objective is the sum of the x_j.              *)
(***************************************************************************)
MinOf(S) == CHOOSE x \in S : \A y \in S : x <= y

MaxOf(S) == CHOOSE x \in S : \A y \in S : x >= y

\* The value counter i reaches under the press vector p.
CounterValue(m, p, i) ==
  Sum([b \in DOMAIN m.buttons |-> IF i \in m.buttons[b] THEN p[b] ELSE 0])

Reproduces(m, p) ==
  \A i \in DOMAIN m.joltage : CounterValue(m, p, i) = m.joltage[i]

\* A button that touches a counter is pressed at most max(joltage) times in a
\* solution, and one that touches none is pressed 0 times in a cheapest one.
PressVectors(m) ==
  [DOMAIN m.buttons ->
     0..MaxOf({0} \cup {m.joltage[i] : i \in DOMAIN m.joltage})]

JoltSolutions(m) == {p \in PressVectors(m) : Reproduces(m, p)}

BruteMinJoltage(m) == MinOf({Sum(p) : p \in JoltSolutions(m)})

\* Some counter with a positive target that no button touches.
UntouchedPositive(m) ==
  \E i \in DOMAIN m.joltage :
    m.joltage[i] > 0 /\ \A b \in DOMAIN m.buttons : i \notin m.buttons[b]

\* solveMachineJoltage of day10-z3.ts: the total presses, or -1.
Z3SolveMachineJoltage(m) ==
  IF Length(m.joltage) = 0 THEN 0
  ELSE IF UntouchedPositive(m) THEN Unsolvable
  ELSE IF JoltSolutions(m) = {} THEN Unsolvable
  ELSE BruteMinJoltage(m)

(***************************************************************************)
(* Batch aggregator: solvePart1 / solvePart2, one step per loop iteration. *)
(***************************************************************************)
\* The locals of the aggregator; `solved` is the history of the indices of
\* the machines a solver has been called on and `results` the history of what
\* the solver returned.
IdleBatch ==
  [machines |-> EmptyArray, fn |-> "none", pc |-> "idle", i |-> 0,
   total |-> 0, solved |-> <<>>, results |-> <<>>, ret |-> Null,
   error |-> Null]

\* fn is "part1", "part2" (parity reduction) or "z3part2" (day10-z3.ts).
StartBatch(fn, machines) ==
  [IdleBatch EXCEPT !.machines = machines, !.fn = fn, !.pc = "loop"]

BatchGuard(s) == s.i < Length(s.machines)

\* The call of the solver on machines[i].
Call(s) == [s EXCEPT !.solved = Append(s.solved, s.i), !.pc = "solving"]

Throw(s, message) == [s EXCEPT !.error = Some(message), !.pc = "thrown"]

\* The return of the solver to the aggregator.
Return(s, r) == [s EXCEPT !.results = Append(s.results, r)]

\* total += presses, and on to the next machine.
Add(s, presses) ==
  [s EXCEPT !.total = s.total + presses, !.i = s.i + 1, !.pc = "loop"]

\* Mutation: an unsolvable machine is skipped.
Part1ResumeSkips(s, presses) ==
  Add(s, IF presses = Unsolvable THEN 0 ELSE presses)

\* The loop body of solvePart1 after solveMachineLights has returned.
Part1Resume(s, presses) ==
  IF presses = Unsolvable
    THEN Throw(s, "No solution found for a machine (lights)")
    ELSE Add(s, presses)

\* Mutation: the total is overwritten.
Part2ResumeOverwrites(s, solution) ==
  IF IsNull(solution)
    THEN Throw(s, "No solution found for a machine (joltage)")
    ELSE [s EXCEPT !.total = Sum(Val(solution)), !.i = s.i + 1, !.pc = "loop"]

\* The loop body of solvePart2 after solveMachineJoltage has returned.
Part2Resume(s, solution) ==
  IF IsNull(solution)
    THEN Throw(s, "No solution found for a machine (joltage)")
    ELSE Add(s, Sum(Val(solution)))

\* The loop body of solvePart2 of day10-z3.ts after the await.
Z3Part2Resume(s, presses) ==
  IF presses = Unsolvable
    THEN Throw(s, "No solution found for a machine")
    ELSE Add(s, presses)

\* return total
ReturnTotal(s) == [s EXCEPT !.ret = Some(s.total), !.pc = "returned"]

(***************************************************************************)
(* parseInput.  A string is the sequence of its characters; the buttons of *)
(* a parsed Machine are the arrays of numbers parseInput builds.           *)
(***************************************************************************)
Digits == {DigitChars[k] : k \in 1..10}

\* Number(str) for str over [0-9]*: Number('') is 0.
RECURSIVE ToNumber(_)
ToNumber(str) ==
  IF Len(str) = 0 THEN 0
  ELSE 10 * ToNumber(SubSeq(str, 1, Len(str) - 1))
         + (CHOOSE d \in 0..9 : DigitChars[d + 1] = str[Len(str)])

\* str.split(sep) for a separator of one character: the pieces, in order.
RECURSIVE Split(_, _)
Split(str, sep) ==
  LET hits == {k \in 1..Len(str) : str[k] = sep}
  IN IF hits = {} THEN <<str>>
     ELSE <<SubSeq(str, 1, MinOf(hits) - 1)>>
            \o Split(SubSeq(str, MinOf(hits) + 1, Len(str)), sep)

\* line.trim(), for the whitespace character " ".
Trim(str) ==
  LET keep == {k \in 1..Len(str) : str[k] # " "}
  IN IF keep = {} THEN <<>> ELSE SubSeq(str, MinOf(keep), MaxOf(keep))

\* The length of the run of characters of `class` that starts at position p.
Run(str, p, class) ==
  LET stops == {k \in p..Len(str) : str[k] \notin class}
  IN IF stops = {} THEN Len(str) + 1 - p ELSE MinOf(stops) - p

\* /<open>([<class>]+)<close>/ matches at position p of str.
MatchesAt(str, p, open, class, close) ==
  /\ str[p] = open
  /\ Run(str, p + 1, class) >= 1
  /\ p + 1 + Run(str, p + 1, class) <= Len(str)
  /\ str[p + 1 + Run(str, p + 1, class)] = close

\* The leftmost match at or after position `from`: its capture group and the
\* position after it (lastIndex), or null.
FirstMatch(str, from, open, class, close) ==
  LET ps == {p \in from..Len(str) : MatchesAt(str, p, open, class, close)}
  IN IF ps = {} THEN Null
     ELSE LET p == MinOf(ps)
              n == Run(str, p + 1, class)
          IN Some([group |-> SubSeq(str, p + 1, p + n), lastIndex |-> p + n + 2])

\* str.matchAll(/<open>([<class>]+)<close>/g): the capture groups, in order.
RECURSIVE MatchAll(_, _, _, _, _)
MatchAll(str, from, open, class, close) ==
  LET match == FirstMatch(str, from, open, class, close)
  IN IF IsNull(match) THEN <<>>
     ELSE <<Val(match).group>>
            \o MatchAll(str, Val(match).lastIndex, open, class, close)

\* str.split(',').map(Number)
Numbers(str) ==
  LET pieces == Split(str, ",")
  IN [k \in 0..(Len(pieces) - 1) |-> ToNumber(pieces[k + 1])]

\* The callback of the last map of parseInput: the Machine of a line, or null
\* when it throws `Invalid pattern`.
ParseLine(line) ==
  LET patternMatch == FirstMatch(line, 1, "[", {".", "#"}, "]")
      buttonMatches == MatchAll(line, 1, "(", Digits \cup {","}, ")")
      joltageMatch == FirstMatch(line, 1, "{", Digits \cup {","}, "}")
  IN IF IsNull(patternMatch) THEN Null
     ELSE LET pattern == Val(patternMatch).group
          IN Some(Machine(
               [k \in 0..(Len(pattern) - 1) |-> pattern[k + 1] = "#"],
               [k \in 0..(Len(buttonMatches) - 1) |-> Numbers(buttonMatches[k + 1])],
               IF IsNull(joltageMatch) THEN EmptyArray
               ELSE Numbers(Val(joltageMatch).group)))

\* input.split('\n').map(line => line.trim()).filter(line => line.length > 0)
Lines(input) ==
  LET split == Split(input, "\n")
      kept == SelectSeq([k \in 1..Len(split) |-> Trim(split[k])],
                        LAMBDA line : Len(line) > 0)
  IN Arr(kept)

\* The locals of parseInput: the lines, the index of the line being mapped,
\* the machines built so far and the error thrown.
IdleParse ==
  [input |-> <<>>, pc |-> "idle", lines |-> EmptyArray, i |-> 0,
   machines |-> EmptyArray, error |-> Null]

StartParse(input) == [IdleParse EXCEPT !.input = input, !.pc = "split"]

SplitLines(s) == [s EXCEPT !.lines = Lines(s.input), !.i = 0, !.pc = "map"]

MapGuard(s) == s.i < Length(s.lines)

\* One line through the map callback.
MapLine(s) ==
  LET machine == ParseLine(s.lines[s.i])
  IN IF IsNull(machine)
       THEN [s EXCEPT !.error = Some(<<"Invalid pattern: ", s.lines[s.i]>>),
                      !.pc = "thrown"]
       ELSE [s EXCEPT !.machines = Push(s.machines, Val(machine)),
                      !.i = s.i + 1]

ReturnMachines(s) == [s EXCEPT !.pc = "returned"]

(***************************************************************************)
(* The two day 10 programs: test() and the top-level script, of part_000   *)
(* (variant "parity") and of day10-z3.ts (variant "z3").  A thread is      *)
(* "script" or "test"; `stack` is the JavaScript call stack (the running   *)
(* activation last) and `micro` the queue of the continuations that are    *)
(* ready to resume.  A synchronous solvePart1 / solvePart2 runs in `batch`;*)
(* the asynchronous solvePart2 that thread t calls runs in chain[t], with  *)
(* solve[t] the position of its solveMachineJoltage.  `out` is the console.*)
(***************************************************************************)
Threads == {"script", "test"}

IdleProg ==
  [variant |-> "none", stack |-> <<>>, micro |-> <<>>,
   pc |-> [t \in Threads |-> "idle"],
   machines |-> [t \in Threads |-> EmptyArray],
   result1 |-> [t \in Threads |-> Null],
   chain |-> [t \in Threads |-> IdleBatch],
   solve |-> [t \in Threads |-> "none"],
   waitInit |-> <<>>, initDone |-> FALSE, out |-> <<>>, exit |-> Null]

(***************************************************************************)
(* class UnionFind of part_004.  `parent` and `rank` are the two arrays,   *)
(* `call` the last method called with its arguments and `ret` what it      *)
(* returned.  A Map is the sequence of its entries in insertion order.     *)
(***************************************************************************)
MaxSize == 4

NewUnionFind(size) ==
  [parent |-> [i \in 0..(size - 1) |-> i],
   rank |-> [i \in 0..(size - 1) |-> 0],
   componentCount |-> size,
   call |-> <<"constructor", size>>, ret |-> Null]

IdleUF == NewUnionFind(0)

\* find(n) with its path compression: every node on the way takes the root
\* as its parent on the way back.
RECURSIVE find(_, _)
find(u, n) ==
  IF u.parent[n] # n
    THEN LET v == find(u, u.parent[n])
         IN [v EXCEPT !.parent[n] = v.ret, !.ret = v.ret]
    ELSE [u EXCEPT !.ret = u.parent[n]]

\* A union that links the two roots and leaves componentCount as it was.
unionKeepsCount(u, x, y) ==
  LET a == find(u, x)
      b == find(a, y)
  IN IF a.ret = b.ret
       THEN [b EXCEPT !.ret = FALSE]
       ELSE [b EXCEPT !.parent[b.ret] = a.ret, !.ret = TRUE]

union(u, x, y) ==
  LET a == find(u, x)
      rootX == a.ret
      b == find(a, y)
      rootY == b.ret
  IN IF rootX = rootY
       THEN [b EXCEPT !.ret = FALSE]
       ELSE LET linked ==
                  IF b.rank[rootX] < b.rank[rootY]
                    THEN [b EXCEPT !.parent[rootX] = rootY]
                    ELSE IF b.rank[rootX] = b.rank[rootY]
                           THEN [b EXCEPT !.parent[rootY] = rootX,
                                          !.rank[rootX] = @ + 1]
                           ELSE [b EXCEPT !.parent[rootY] = rootX]
            IN [linked EXCEPT !.componentCount = @ - 1, !.ret = TRUE]

isConnected(u) == [u EXCEPT !.ret = (u.componentCount = 1)]

\* sizes.set(root, (sizes.get(root) ?? 0) + 1)
CountRoot(sizes, root) ==
  IF \E k \in 1..Len(sizes) : sizes[k][1] = root
    THEN [k \in 1..Len(sizes) |->
            IF sizes[k][1] = root THEN <<root, sizes[k][2] + 1>> ELSE sizes[k]]
    ELSE Append(sizes, <<root, 1>>)

\* The loop of getComponentSizes from index i on; `ret` carries the Map.
RECURSIVE SizesFrom(_, _, _)
SizesFrom(u, sizes, i) ==
  IF i < Length(u.parent)
    THEN LET v == find(u, i)
         IN SizesFrom(v, CountRoot(sizes, v.ret), i + 1)
    ELSE [u EXCEPT !.ret = sizes]

getComponentSizes(u) ==
  LET v == SizesFrom(u, <<>>, 0)
  IN [v EXCEPT !.ret = Arr([k \in 1..Len(v.ret) |-> v.ret[k][2]])]

(***************************************************************************)
(* Day 11 (day7.ts, second program): solvePart2 counts the paths from      *)
(* "svr" to "out" through "dac" and "fft".  A Graph is a function from the *)
(* devices that have a line to their output lists; the memo is a function  *)
(* from the keys set so far to the totals stored under them.               *)
(***************************************************************************)
MaxOutputs == 2

Devices == {"svr", "aaa", "dac", "fft", "out"}

requiredNodes == {"dac", "fft"}

\* Array.from(visitedRequired).sort(), for the subsets of requiredNodes.
SortedRequired(visitedRequired) ==
  IF visitedRequired = {} THEN <<>>
  ELSE IF visitedRequired = {"dac"} THEN <<"dac">>
  ELSE IF visitedRequired = {"fft"} THEN <<"fft">>
  ELSE <<"dac", "fft">>

\* `${node}:${requiredKey}`: the node and then the sorted names.
MemoKey(node, visitedRequired) == <<node>> \o SortedRequired(visitedRequired)

MemoStore(memo, key, total) ==
  [k \in DOMAIN memo \cup {key} |-> IF k = key THEN total ELSE memo[k]]

\* countPaths returns its total and leaves the memo as `memo`; SumOutputs is
\* its loop over outputs from index i on.  visited and visitedRequired are as
\* they were when a call returns, so each call is handed its own value.
RECURSIVE countPaths(_, _, _, _, _)
RECURSIVE SumOutputs(_, _, _, _, _, _, _)
countPaths(graph, memo, node, visited, visitedRequired) ==
  IF node = "out"
    THEN [total |-> IF "dac" \in visitedRequired /\ "fft" \in visitedRequired
                      THEN 1 ELSE 0,
          memo |-> memo]
  ELSE IF node \in visited THEN [total |-> 0, memo |-> memo]
  ELSE IF node \notin DOMAIN graph \/ Len(graph[node]) = 0
    THEN [total |-> 0, memo |-> memo]
  ELSE IF MemoKey(node, visitedRequired) \in DOMAIN memo
    THEN [total |-> memo[MemoKey(node, visitedRequired)], memo |-> memo]
  ELSE LET wasRequired == node \in requiredNodes
           r == SumOutputs(graph, memo, graph[node], 1, visited \cup {node},
                           IF wasRequired THEN visitedRequired \cup {node}
                                          ELSE visitedRequired, 0)
       IN [total |-> r.total,
           memo |-> MemoStore(r.memo, MemoKey(node, visitedRequired), r.total)]

SumOutputs(graph, memo, outputs, i, visited, visitedRequired, total) ==
  IF i > Len(outputs)
    THEN [total |-> total, memo |-> memo]
    ELSE LET r == countPaths(graph, memo, outputs[i], visited, visitedRequired)
         IN SumOutputs(graph, r.memo, outputs, i + 1, visited, visitedRequired,
                       total + r.total)

IdleDay11 == [pc |-> "idle", graph |-> <<>>, memo |-> <<>>, result |-> Null]

(***************************************************************************)
(* Day 1 (day1.ts): the dial.  `fn` is the function that is running, and   *)
(* position, zeroCount and isFirstRotation are its locals; `done` counts   *)
(* the rotations forEach has handed to the callback.                       *)
(***************************************************************************)
MaxRotations == 3

MaxDistance == 250

\* JavaScript a % b for b > 0: the remainder has the sign of a.
JsRem(a, b) == IF a >= 0 THEN a % b ELSE 0 - ((0 - a) % b)

IdleDial ==
  [fn |-> "none", pc |-> "idle", position |-> 0, zeroCount |-> 0,
   isFirstRotation |-> FALSE, done |-> 0, ret |-> Null]

StartDial(fn) ==
  [IdleDial EXCEPT !.fn = fn, !.pc = "forEach", !.position = 50,
                   !.isFirstRotation = TRUE]

\* position after the rotation, in both functions.
Rotated(position, direction, distance) ==
  IF direction = "L"
    THEN JsRem(position - distance + 100, 100)
    ELSE JsRem(position + distance, 100)

\* The callback of calculatePasswordPart1 on one rotation.
RotatePart1(s, direction, distance) ==
  LET position == Rotated(s.position, direction, distance)
  IN [s EXCEPT !.position = position,
               !.zeroCount = IF position = 0 THEN @ + 1 ELSE @,
               !.done = @ + 1]

\* The clicks of one rotation of calculatePasswordPart2 that point at 0.
ZeroClicks(s, direction, distance) ==
  {i \in (IF s.isFirstRotation THEN 0 ELSE 1)..distance :
     Rotated(s.position, direction, i) = 0}

\* The callback of calculatePasswordPart2 on one rotation.
RotatePart2(s, direction, distance) ==
  [s EXCEPT !.zeroCount = @ + Cardinality(ZeroClicks(s, direction, distance)),
            !.position = Rotated(s.position, direction, distance),
            !.isFirstRotation = FALSE,
            !.done = @ + 1]

ReturnZeroCount(s) == [s EXCEPT !.pc = "returned", !.ret = Some(s.zeroCount)]

(***************************************************************************)
(* The toggle solver as a state machine.                                   *)
(***************************************************************************)
LightsIndices == 0..(MaxLights - 1)

LightMachines ==
  {Machine(t, b, EmptyArray) :
     t \in ArraysUpTo(MaxLights, BOOLEAN),
     b \in ArraysUpTo(MaxButtons, SUBSET LightsIndices)}

LightsInit ==
  /\ lights \in {StartLights(m) : m \in LightMachines}
  /\ jolt = IdleJolt
  /\ batch = IdleBatch
  /\ parse = IdleParse
  /\ prog = IdleProg
  /\ uf = IdleUF
  /\ day11 = IdleDay11
  /\ dial = IdleDial

\* One light that is OFF and 31 or 32 buttons, all alike, that leave at least
\* 31 columns without a pivot.
WideLightMachines ==
  {Machine(Arr(<<FALSE>>), [b \in 0..(n - 1) |-> S], EmptyArray) :
     n \in 31..32, S \in {{}, {0}}}
    \ {Machine(Arr(<<FALSE>>), [b \in 0..30 |-> {0}], EmptyArray)}

WideLightsInit ==
  /\ lights \in {StartLights(m) : m \in LightMachines \cup WideLightMachines}
  /\ jolt = IdleJolt
  /\ batch = IdleBatch
  /\ parse = IdleParse
  /\ prog = IdleProg
  /\ uf = IdleUF
  /\ day11 = IdleDay11
  /\ dial = IdleDial

LightsBuild ==
  /\ lights.pc = "build"
  /\ lights' = BuildMatrix(lights)
  /\ UNCHANGED <<jolt, batch, parse, prog, uf, day11, dial>>

LightsEliminate ==
  /\ lights.pc = "eliminate"
  /\ ElimGuard(lights)
  /\ lights' = ElimColumn(lights)
  /\ UNCHANGED <<jolt, batch, parse, prog, uf, day11, dial>>

LightsCheck ==
  /\ lights.pc = "eliminate"
  /\ ~ElimGuard(lights)
  /\ lights' = CheckConsistency(lights)
  /\ UNCHANGED <<jolt, batch, parse, prog, uf, day11, dial>>

LightsTryMask ==
  /\ lights.pc = "enumerate"
  /\ EnumGuard(lights)
  /\ lights' = TryMask(lights)
  /\ UNCHANGED <<jolt, batch, parse, prog, uf, day11, dial>>

LightsReturn ==
  /\ lights.pc = "enumerate"
  /\ ~EnumGuard(lights)
  /\ lights' = ReturnMin(lights)
  /\ UNCHANGED <<jolt, batch, parse, prog, uf, day11, dial>>

LightsNext ==
  LightsBuild \/ LightsEliminate \/ LightsCheck \/ LightsTryMask \/ LightsReturn

SpecLights == LightsInit /\ [][LightsNext]_vars

SpecLightsWide == WideLightsInit /\ [][LightsNext]_vars

(***************************************************************************)
(* The parity reduction solver as a state machine.                         *)
(***************************************************************************)
CounterIndices == 0..(MaxCounters - 1)

JoltMachines ==
  {Machine(EmptyArray, b, j) :
     b \in ArraysUpTo(MaxJoltButtons, SUBSET CounterIndices),
     j \in ArraysUpTo(MaxCounters, 0..MaxJoltage)}

\* Three counters, each pair of them touched by one button: a machine whose
\* target can be solvable while half of it is not.
TriangleMachines ==
  {Machine(EmptyArray, Arr(<<{0, 1}, {1, 2}, {0, 2}>>), j) :
     j \in Arrays(3, 0..MaxJoltage)}

JoltInit ==
  /\ jolt \in {StartJolt(m) : m \in JoltMachines \cup TriangleMachines}
  /\ lights = IdleLights
  /\ batch = IdleBatch
  /\ parse = IdleParse
  /\ prog = IdleProg
  /\ uf = IdleUF
  /\ day11 = IdleDay11
  /\ dial = IdleDial

JoltStart ==
  /\ jolt.pc = "start"
  /\ jolt' = JoltBegin(jolt)
  /\ UNCHANGED <<lights, batch, parse, prog, uf, day11, dial>>

JoltCall ==
  /\ jolt.pc = "call"
  /\ jolt' = JoltEnter(jolt)
  /\ UNCHANGED <<lights, batch, parse, prog, uf, day11, dial>>

JoltLoop ==
  /\ jolt.pc = "loop"
  /\ LoopGuard(jolt)
  /\ jolt' = JoltIterate(jolt)
  /\ UNCHANGED <<lights, batch, parse, prog, uf, day11, dial>>

JoltLoopEnd ==
  /\ jolt.pc = "loop"
  /\ ~LoopGuard(jolt)
  /\ jolt' = JoltFinish(jolt)
  /\ UNCHANGED <<lights, batch, parse, prog, uf, day11, dial>>

JoltRet ==
  /\ jolt.pc = "return"
  /\ jolt' = JoltReturn(jolt)
  /\ UNCHANGED <<lights, batch, parse, prog, uf, day11, dial>>

JoltNext == JoltStart \/ JoltCall \/ JoltLoop \/ JoltLoopEnd \/ JoltRet

SpecJoltage == JoltInit /\ [][JoltNext]_vars

(***************************************************************************)
(* The batch aggregator as a state machine.                                *)
(***************************************************************************)
\* The three machines of test().
Fixture ==
  Arr(<<Machine(Arr(<<FALSE, TRUE, TRUE, FALSE>>),
                Arr(<<{3}, {1, 3}, {2}, {2, 3}, {0, 2}, {0, 1}>>),
                Arr(<<3, 5, 4, 7>>)),
        Machine(Arr(<<FALSE, FALSE, FALSE, TRUE, FALSE>>),
                Arr(<<{0, 2, 3, 4}, {2, 3}, {0, 4}, {0, 1, 2}, {1, 2, 3, 4}>>),
                Arr(<<7, 5, 12, 7, 2>>)),
        Machine(Arr(<<FALSE, TRUE, TRUE, TRUE, FALSE, TRUE>>),
                Arr(<<{0, 1, 2, 3, 4}, {0, 3, 4}, {0, 1, 2, 4, 5}, {1, 2}>>),
                Arr(<<10, 11, 11, 5, 10, 5>>))>>)

\* The machines of the other batches: two solvable for both parts; one
\* unsolvable for the lights only; one unsolvable for the counters only; one
\* unsolvable for both; one without a joltage list.
Pool ==
  {Machine(Arr(<<TRUE>>), Arr(<<{0}>>), Arr(<<2>>)),
   Machine(Arr(<<TRUE, TRUE>>), Arr(<<{0}, {1}, {0, 1}>>), Arr(<<3, 2>>)),
   Machine(Arr(<<TRUE, FALSE>>), Arr(<<{0, 1}>>), Arr(<<1, 1>>)),
   Machine(Arr(<<FALSE, TRUE>>), Arr(<<{1}, {0, 1}>>), Arr(<<2, 1>>)),
   Machine(Arr(<<TRUE>>), EmptyArray, Arr(<<1>>)),
   Machine(Arr(<<FALSE>>), Arr(<<{0}>>), EmptyArray)}

\* test() runs solvePart1 and solvePart2 on the fixture; the script runs
\* them on the parsed input.
BatchInit ==
  /\ batch \in
       {StartBatch(fn, ms) :
          fn \in {"part1", "part2", "z3part2"}, ms \in ArraysUpTo(MaxBatch, Pool)}
       \cup {StartBatch(fn, Fixture) : fn \in {"part1", "part2"}}
  /\ lights = IdleLights
  /\ jolt = IdleJolt
  /\ parse = IdleParse
  /\ prog = IdleProg
  /\ uf = IdleUF
  /\ day11 = IdleDay11
  /\ dial = IdleDial

SolvePart1Call ==
  /\ batch.fn = "part1"
  /\ batch.pc = "loop"
  /\ BatchGuard(batch)
  /\ batch' = Call(batch)
  /\ lights' = StartLights(batch.machines[batch.i])
  /\ UNCHANGED <<jolt, parse, prog, uf, day11, dial>>

SolvePart1Resume ==
  /\ batch.fn = "part1"
  /\ batch.pc = "solving"
  /\ lights.pc = "done"
  /\ batch' = Part1Resume(Return(batch, lights.ret), lights.ret)
  /\ lights' = IdleLights
  /\ UNCHANGED <<jolt, parse, prog, uf, day11, dial>>

SolvePart2Call ==
  /\ batch.fn = "part2"
  /\ batch.pc = "loop"
  /\ BatchGuard(batch)
  /\ batch' = Call(batch)
  /\ jolt' = StartJolt(batch.machines[batch.i])
  /\ UNCHANGED <<lights, parse, prog, uf, day11, dial>>

\* Mutation: the memo of the call is kept after its return.
SolvePart2ResumeKeepsMemo ==
  /\ batch.fn = "part2"
  /\ batch.pc = "solving"
  /\ jolt.pc = "done"
  /\ batch' = Part2Resume(Return(batch, jolt.ret), jolt.ret)
  /\ jolt' = [IdleJolt EXCEPT !.memo = jolt.memo]
  /\ UNCHANGED <<lights, parse, prog, uf, day11, dial>>

SolvePart2Resume ==
  /\ batch.fn = "part2"
  /\ batch.pc = "solving"
  /\ jolt.pc = "done"
  /\ batch' = Part2Resume(Return(batch, jolt.ret), jolt.ret)
  /\ jolt' = IdleJolt
  /\ UNCHANGED <<lights, parse, prog, uf, day11, dial>>

Z3SolvePart2Call ==
  /\ batch.fn = "z3part2"
  /\ batch.pc = "loop"
  /\ BatchGuard(batch)
  /\ batch' = Call(batch)
  /\ UNCHANGED <<lights, jolt, parse, prog, uf, day11, dial>>

Z3SolvePart2Resume ==
  /\ batch.fn = "z3part2"
  /\ batch.pc = "solving"
  /\ LET presses == Z3SolveMachineJoltage(batch.machines[batch.i])
     IN batch' = Z3Part2Resume(Return(batch, presses), presses)
  /\ UNCHANGED <<lights, jolt, parse, prog, uf, day11, dial>>

SolveReturn ==
  /\ batch.pc = "loop"
  /\ ~BatchGuard(batch)
  /\ batch' = ReturnTotal(batch)
  /\ UNCHANGED <<lights, jolt, parse, prog, uf, day11, dial>>

BatchNext ==
  \/ SolvePart1Call \/ SolvePart1Resume
  \/ SolvePart2Call \/ SolvePart2Resume
  \/ Z3SolvePart2Call \/ Z3SolvePart2Resume
  \/ SolveReturn
  \/ LightsNext
  \/ JoltNext

SpecBatch == BatchInit /\ [][BatchNext]_vars

(***************************************************************************)
(* parseInput as a state machine.                                          *)
(***************************************************************************)
\* The sequences of at most n elements of S.
RECURSIVE SeqsUpTo(_, _)
SeqsUpTo(n, S) ==
  IF n <= 0 THEN {<<>>}
  ELSE LET shorter == SeqsUpTo(n - 1, S)
       IN shorter \cup {Append(q, x) : q \in shorter, x \in S}

RECURSIVE Concat(_)
Concat(q) == IF Len(q) = 0 THEN <<>> ELSE Head(q) \o Concat(Tail(q))

\* The pattern of a line: well delimited, or without one or both delimiters,
\* or without lights.
PatternParts ==
  {<<"[", "#", "]">>, <<"[", ".", "#", "]">>, <<"[", "#">>, <<"#", "]">>,
   <<"[", "]">>}

\* A button group: lists of indices, a letter, an empty index, no index.
GroupParts ==
  {<<" ", "(", "0", ")">>, <<" ", "(", "1", ",", "0", ")">>,
   <<" ", "(", "a", ")">>, <<" ", "(", "0", ",", ",", "1", ")">>,
   <<" ", "(", ")">>}

\* A joltage list: absent, lists of numbers, a letter, an empty number.
JoltageParts ==
  {<<>>, <<" ", "{", "2", "}">>, <<" ", "{", "1", "0", ",", "3", "}", " ">>,
   <<" ", "{", "x", "}">>, <<" ", "{", "1", ",", "}">>}

\* What follows the first line: nothing, an empty line, another machine.
RestParts ==
  {<<>>, <<"\n", " ">>, <<"\n", " ", "[", ".", "]", " ", "(", "0", ")">>}

Inputs ==
  {pattern \o Concat(groups) \o joltage \o rest :
     pattern \in PatternParts, groups \in SeqsUpTo(MaxGroups, GroupParts),
     joltage \in JoltageParts, rest \in RestParts}

ParseInit ==
  /\ parse \in {StartParse(input) : input \in Inputs}
  /\ lights = IdleLights
  /\ jolt = IdleJolt
  /\ batch = IdleBatch
  /\ prog = IdleProg
  /\ uf = IdleUF
  /\ day11 = IdleDay11
  /\ dial = IdleDial

ParseSplit ==
  /\ parse.pc = "split"
  /\ parse' = SplitLines(parse)
  /\ UNCHANGED <<lights, jolt, batch, prog, uf, day11, dial>>

ParseMap ==
  /\ parse.pc = "map"
  /\ MapGuard(parse)
  /\ parse' = MapLine(parse)
  /\ UNCHANGED <<lights, jolt, batch, prog, uf, day11, dial>>

ParseReturn ==
  /\ parse.pc = "map"
  /\ ~MapGuard(parse)
  /\ parse' = ReturnMachines(parse)
  /\ UNCHANGED <<lights, jolt, batch, prog, uf, day11, dial>>

ParseNext == ParseSplit \/ ParseMap \/ ParseReturn

SpecParse == ParseInit /\ [][ParseNext]_vars

(***************************************************************************)
(* Reference semantics: exhaustive search.                                 *)
(***************************************************************************)
\* The buttons of S toggle every light to its target.
XorsToTarget(m, S) ==
  \A i \in DOMAIN m.target :
    (Cardinality({b \in S : i \in m.buttons[b]}) % 2 = 1) = m.target[i]

SatisfyingSubsets(m) == {S \in SUBSET DOMAIN m.buttons : XorsToTarget(m, S)}

BruteMinLights(m) == MinOf({Cardinality(S) : S \in SatisfyingSubsets(m)})

Pressed(solution) == {b \in DOMAIN solution : solution[b]}

\* The totals of the press vectors of the buttons b, b+1, ... that bring the
\* remainders `rem` to zero: every press count that overshoots no counter is
\* tried; a button that touches no counter is not pressed.
RECURSIVE SearchTotals(_, _, _)
SearchTotals(m, b, rem) ==
  IF b >= Length(m.buttons)
    THEN IF \A i \in DOMAIN rem : rem[i] = 0 THEN {0} ELSE {}
    ELSE LET touched == {i \in DOMAIN rem : i \in m.buttons[b]}
             cap == IF touched = {} THEN 0 ELSE MinOf({rem[i] : i \in touched})
         IN UNION {{k + c : c \in SearchTotals(m, b + 1,
                               [i \in DOMAIN rem |->
                                  IF i \in touched THEN rem[i] - k ELSE rem[i]])} :
                   k \in 0..cap}

JoltTotals(m) == SearchTotals(m, 0, m.joltage)

UntouchedOn(m) ==
  \E i \in DOMAIN m.target :
    m.target[i] /\ \A b \in DOMAIN m.buttons : i \notin m.buttons[b]

(***************************************************************************)
(* The programs as a state machine: the script calls test(), reads and     *)
(* parses the puzzle input and solves both parts.  In day10-z3.ts          *)
(* solvePart2, solveMachineJoltage and test are async: an activation that  *)
(* reaches an await leaves the call stack and is resumed from `micro`.     *)
(***************************************************************************)
Thread(t) == <<"thread", t>>

Chain(t) == <<"chain", t>>

Runs(x) == IsNull(prog.exit) /\ prog.stack # <<>> /\ Top(prog) = x

Pop(q) == SubSeq(q, 1, Len(q) - 1)

Log(p, lines) == [p EXCEPT !.out = @ \o lines]

\* An uncaught exception, or process.exit(1).
Crash(p) == [p EXCEPT !.stack = <<>>, !.exit = Some(1)]

\* The promise of the solvePart2 of thread t settles: a parked caller resumes.
Settle(p, t) ==
  IF p.pc[t] = "parked" THEN [p EXCEPT !.micro = Append(@, Thread(t))] ELSE p

\* What solveMachineJoltage of day10-z3.ts resolves to: the optimum of the
\* contract of Optimize, through the search that overshoots no counter.
Z3Optimum(m) ==
  IF Length(m.joltage) = 0 THEN 0
  ELSE IF UntouchedPositive(m) THEN Unsolvable
  ELSE IF JoltTotals(m) = {} THEN Unsolvable
  ELSE MinOf(JoltTotals(m))

\* The puzzle inputs of the script, parsed.
ProgInputs == ArraysUpTo(MaxInput, Pool)

ProgInit ==
  /\ \E v \in {"parity", "z3"} :
       prog = [IdleProg EXCEPT !.variant = v, !.stack = <<Thread("script")>>,
                               !.pc["script"] = "test"]
  /\ lights = IdleLights
  /\ jolt = IdleJolt
  /\ batch = IdleBatch
  /\ parse = IdleParse
  /\ uf = IdleUF
  /\ day11 = IdleDay11
  /\ dial = IdleDial

\* test();
CallTest ==
  /\ Runs(Thread("script"))
  /\ prog.pc["script"] = "test"
  /\ prog' = [prog EXCEPT !.pc = [t \in Threads |-> "parse"],
                          !.stack = Append(@, Thread("test"))]
  /\ UNCHANGED <<lights, jolt, batch, parse, uf, day11, dial>>

\* parseInput(exampleInput) in test; readFileSync and parseInput(rawInput) in
\* the script, where parseInput may throw.
ParseInput ==
  \E t \in Threads :
    /\ Runs(Thread(t))
    /\ prog.pc[t] = "parse"
    /\ \E parsed \in IF t = "test" THEN {Some(Fixture)}
                     ELSE {Null} \cup {Some(ms) : ms \in ProgInputs} :
         prog' = IF IsNull(parsed) THEN Crash(prog)
                 ELSE [prog EXCEPT !.machines[t] = Val(parsed),
                                   !.pc[t] = "part1"]
    /\ UNCHANGED <<lights, jolt, batch, parse, uf, day11, dial>>

CallSolvePart1 ==
  \E t \in Threads :
    /\ Runs(Thread(t))
    /\ prog.pc[t] = "part1"
    /\ batch' = StartBatch("part1", prog.machines[t])
    /\ prog' = [prog EXCEPT !.pc[t] = "part1wait"]
    /\ UNCHANGED <<lights, jolt, parse, uf, day11, dial>>

\* solvePart1 returns or throws; test logs at once, and so does the script of
\* day10-z3.ts.
SolvePart1Returns ==
  \E t \in Threads :
    /\ Runs(Thread(t))
    /\ prog.pc[t] = "part1wait"
    /\ batch.pc \in {"returned", "thrown"}
    /\ batch' = IdleBatch
    /\ prog' =
         IF batch.pc = "thrown" THEN Crash(prog)
         ELSE LET r == Val(batch.ret)
                  p == [prog EXCEPT !.pc[t] = "part2", !.result1[t] = Some(r)]
              IN IF t = "test"
                   THEN Log(p, <<<<"Expected", 7>>, <<"Result", r>>>>)
                   ELSE IF prog.variant = "z3"
                          THEN Log(p, <<<<"Part 1", r>>>>)
                          ELSE p
    /\ UNCHANGED <<lights, jolt, parse, uf, day11, dial>>

\* solvePart2(...): a call in part_000; in day10-z3.ts the start of an async
\* activation, which runs first.
CallSolvePart2 ==
  \E t \in Threads :
    /\ Runs(Thread(t))
    /\ prog.pc[t] = "part2"
    /\ IF prog.variant = "parity"
         THEN /\ batch' = StartBatch("part2", prog.machines[t])
              /\ prog' = [prog EXCEPT !.pc[t] = "part2wait"]
         ELSE /\ batch' = batch
              /\ prog' = [prog EXCEPT
                            !.chain[t] = StartBatch("z3part2", prog.machines[t]),
                            !.stack = Append(@, Chain(t)),
                            !.pc[t] = "await"]
    /\ UNCHANGED <<lights, jolt, parse, uf, day11, dial>>

\* part_000: solvePart2 returns or throws; the caller logs and returns.
SolvePart2Returns ==
  \E t \in Threads :
    /\ Runs(Thread(t))
    /\ prog.pc[t] = "part2wait"
    /\ batch.pc \in {"returned", "thrown"}
    /\ batch' = IdleBatch
    /\ prog' =
         IF batch.pc = "thrown" THEN Crash(prog)
         ELSE LET r == Val(batch.ret)
                  p == [prog EXCEPT !.pc[t] = "done", !.stack = Pop(@)]
              IN IF t = "test"
                   THEN Log(p, <<<<"Expected", 33>>, <<"Result", r>>>>)
                   ELSE Log(p, <<<<"Part 1", Val(prog.result1[t])>>,
                                 <<"Part 2", r>>>>)
    /\ UNCHANGED <<lights, jolt, parse, uf, day11, dial>>

\* day10-z3.ts: `await solvePart2(...)` in test, `.then(...).catch(...)` in
\* the script: the caller leaves the stack until the promise settles.
AwaitSolvePart2 ==
  \E t \in Threads :
    /\ Runs(Thread(t))
    /\ prog.pc[t] = "await"
    /\ prog' = [prog EXCEPT
                  !.pc[t] = "parked",
                  !.stack = Pop(@),
                  !.micro = IF prog.chain[t].pc \in {"returned", "thrown"}
                              THEN Append(@, Thread(t)) ELSE @]
    /\ UNCHANGED <<lights, jolt, batch, parse, uf, day11, dial>>

\* The code after the await of test; the then or the catch callback of the
\* script.  A rejection ends the process.
SolvePart2Settles ==
  \E t \in Threads :
    /\ Runs(Thread(t))
    /\ prog.pc[t] = "parked"
    /\ prog' =
         IF prog.chain[t].pc = "thrown"
           THEN Crash(Log(prog, <<<<"error">>>>))
           ELSE LET r == Val(prog.chain[t].ret)
                    p == [prog EXCEPT !.pc[t] = "done", !.stack = Pop(@)]
                IN IF t = "test"
                     THEN Log(p, <<<<"Expected", 33>>, <<"Result", r>>>>)
                     ELSE Log(p, <<<<"Part 2", r>>>>)
    /\ UNCHANGED <<lights, jolt, batch, parse, uf, day11, dial>>

\* One iteration of the async solvePart2: solveMachineJoltage runs up to its
\* return or to `await z3InitPromise`, and solvePart2 awaits its promise.
AsyncSolvePart2Call ==
  \E t \in Threads :
    /\ Runs(Chain(t))
    /\ prog.chain[t].pc = "loop"
    /\ BatchGuard(prog.chain[t])
    /\ LET m == prog.chain[t].machines[prog.chain[t].i]
           returns == Length(m.joltage) = 0 \/ UntouchedPositive(m)
       IN prog' = [prog EXCEPT
                     !.chain[t] = Call(@),
                     !.solve[t] = IF returns THEN "resolved" ELSE "awaitInit",
                     !.micro = IF returns \/ prog.initDone
                                 THEN Append(@, Chain(t)) ELSE @,
                     !.waitInit = IF returns \/ prog.initDone
                                    THEN @ ELSE Append(@, t),
                     !.stack = Pop(@)]
    /\ UNCHANGED <<lights, jolt, batch, parse, uf, day11, dial>>

AsyncSolveReturn ==
  \E t \in Threads :
    /\ Runs(Chain(t))
    /\ prog.chain[t].pc = "loop"
    /\ ~BatchGuard(prog.chain[t])
    /\ prog' = Settle([prog EXCEPT !.chain[t] = ReturnTotal(@),
                                   !.stack = Pop(@)], t)
    /\ UNCHANGED <<lights, jolt, batch, parse, uf, day11, dial>>

\* solveMachineJoltage after `await z3InitPromise`: the optimizer is built and
\* `await opt.check()` is reached.
SolveAfterInit ==
  \E t \in Threads :
    /\ Runs(Chain(t))
    /\ prog.solve[t] = "awaitInit"
    /\ prog' = [prog EXCEPT !.solve[t] = "awaitCheck", !.stack = Pop(@)]
    /\ UNCHANGED <<lights, jolt, batch, parse, uf, day11, dial>>
  /\ uf = IdleUF
  /\ day11 = IdleDay11
  /\ dial = IdleDial

\* solveMachineJoltage after `await opt.check()`: it returns, which resolves
\* the promise solvePart2 awaits.
SolveAfterCheck ==
  \E t \in Threads :
    /\ Runs(Chain(t))
    /\ prog.solve[t] = "checked"
    /\ prog' = [prog EXCEPT !.solve[t] = "resolved",
                            !.micro = Append(@, Chain(t)),
                            !.stack = Pop(@)]
    /\ UNCHANGED <<lights, jolt, batch, parse, uf, day11, dial>>

\* solvePart2 after `await solveMachineJoltage(machine)`: it throws or adds,
\* and goes on with the loop.
AsyncSolvePart2Resume ==
  \E t \in Threads :
    /\ Runs(Chain(t))
    /\ prog.solve[t] = "resolved"
    /\ LET presses == Z3Optimum(prog.chain[t].machines[prog.chain[t].i])
           c == Z3Part2Resume(Return(prog.chain[t], presses), presses)
           p == [prog EXCEPT !.chain[t] = c, !.solve[t] = "none"]
       IN prog' = IF c.pc = "thrown"
                    THEN Settle([p EXCEPT !.stack = Pop(@)], t)
                    ELSE p
    /\ UNCHANGED <<lights, jolt, batch, parse, uf, day11, dial>>

\* The event loop resumes the first continuation that is ready.
RunMicrotask ==
  /\ IsNull(prog.exit)
  /\ prog.stack = <<>>
  /\ prog.micro # <<>>
  /\ prog' = [prog EXCEPT !.stack = <<Head(prog.micro)>>, !.micro = Tail(@)]
  /\ UNCHANGED <<lights, jolt, batch, parse, uf, day11, dial>>

\* z3InitPromise resolves: every activation that awaits it is ready.
InitResolves ==
  /\ IsNull(prog.exit)
  /\ prog.variant = "z3"
  /\ prog.stack = <<>>
  /\ prog.micro = <<>>
  /\ ~prog.initDone
  /\ prog' = [prog EXCEPT
                !.initDone = TRUE,
                !.micro = [k \in DOMAIN prog.waitInit |->
                             Chain(prog.waitInit[k])],
                !.waitInit = <<>>]
  /\ UNCHANGED <<lights, jolt, batch, parse, uf, day11, dial>>

\* The promise of one opt.check() resolves.
CheckResolves ==
  \E t \in Threads :
    /\ IsNull(prog.exit)
    /\ prog.stack = <<>>
    /\ prog.micro = <<>>
    /\ prog.solve[t] = "awaitCheck"
    /\ prog' = [prog EXCEPT !.solve[t] = "checked", !.micro = <<Chain(t)>>]
    /\ UNCHANGED <<lights, jolt, batch, parse, uf, day11, dial>>

ProgNext ==
  \/ CallTest
  \/ ParseInput
  \/ CallSolvePart1
  \/ SolvePart1Returns
  \/ CallSolvePart2
  \/ SolvePart2Returns
  \/ AwaitSolvePart2
  \/ SolvePart2Settles
  \/ AsyncSolvePart2Call
  \/ AsyncSolveReturn
  \/ SolveAfterInit
  \/ SolveAfterCheck
  \/ AsyncSolvePart2Resume
  \/ RunMicrotask
  \/ InitResolves
  \/ CheckResolves
  \/ SolvePart1Call
  \/ SolvePart1Resume
  \/ SolvePart2Call
  \/ SolvePart2Resume
  \/ SolveReturn
  \/ LightsNext
  \/ JoltNext

SpecProgram == ProgInit /\ [][ProgNext]_vars

(***************************************************************************)
(* Toggle solver claims (SpecLights).                                      *)
(***************************************************************************)
EnumeratedMasks(s) == 0..(Shl1(Length(s.freeVars)) - 1)

\* C1: for a machine some subset of whose buttons XORs to the target, the
\* toggle solver returns the minimum size of such a subset, as found by
\* exhaustive search over all 2^B subsets.
C1_ToggleMinimum ==
  (lights.pc = "done" /\ SatisfyingSubsets(lights.machine) # {})
    => lights.ret = BruteMinLights(lights.machine)

C1_Witness ==
  /\ lights.pc = "done"
  /\ Length(lights.freeVars) >= 1
  /\ lights.rank >= 2
  /\ Presses(SolutionFor(lights, 0)) > lights.ret
  /\ lights.ret = BruteMinLights(lights.machine)

\* C4: once the consistency check has passed, every assignment the
\* enumeration builds (free variables from the mask, pivot variables by back
\* substitution) toggles every light to its target, and the returned count is
\* the weight of one of them.
C4_EnumeratedAssignmentsSatisfy ==
  /\ lights.pc = "enumerate" =>
       /\ \A mask \in EnumeratedMasks(lights) :
            XorsToTarget(lights.machine, Pressed(SolutionFor(lights, mask)))
       /\ lights.mask > 0 =>
            XorsToTarget(lights.machine, Pressed(lights.solution))
  /\ (lights.pc = "done" /\ lights.ret # Unsolvable) =>
       \E mask \in EnumeratedMasks(lights) :
         /\ XorsToTarget(lights.machine, Pressed(SolutionFor(lights, mask)))
         /\ Presses(SolutionFor(lights, mask)) = lights.ret

C4_Witness ==
  /\ lights.pc = "enumerate"
  /\ lights.mask >= 2
  /\ lights.rank >= 2
  /\ \E r \in DOMAIN lights.pivotCol : lights.solution[lights.pivotCol[r]]
  /\ \E i \in DOMAIN lights.freeVars : lights.solution[lights.freeVars[i]]
  /\ XorsToTarget(lights.machine, Pressed(lights.solution))

\* C5: the toggle solver returns -1 exactly when no subset of the buttons
\* XORs to the target.
C5_UnsolvableIffNoSubset ==
  lights.pc = "done" =>
    (lights.ret = Unsolvable <=> SatisfyingSubsets(lights.machine) = {})

C5_Witness ==
  /\ lights.pc = "done"
  /\ lights.ret = Unsolvable
  /\ lights.rank >= 1
  /\ UntouchedOn(lights.machine)

(***************************************************************************)
(* Parity reduction solver claims (SpecJoltage).                           *)
(***************************************************************************)
\* C2: for a machine whose counters some non-negative press vector
\* reproduces, the sum of the returned press vector is the minimum total
\* found by exhaustive search.
C2_JoltageMinimum ==
  (jolt.pc = "done" /\ JoltSolutions(jolt.machine) # {})
    => /\ ~IsNull(jolt.ret)
       /\ Sum(Val(jolt.ret)) = BruteMinJoltage(jolt.machine)

C2_Witness ==
  /\ jolt.pc = "done"
  /\ ~IsNull(jolt.ret)
  /\ Cardinality(JoltSolutions(jolt.machine)) >= 2
  /\ Sum(Val(jolt.ret)) = BruteMinJoltage(jolt.machine)
  /\ \E b \in DOMAIN Val(jolt.ret) : Val(jolt.ret)[b] >= 2
  /\ \E p \in JoltSolutions(jolt.machine) : Sum(p) > Sum(Val(jolt.ret))

\* C3: a press vector returned for a machine with at least one counter has
\* one non-negative integer per button and brings every counter exactly to
\* its joltage.
C3_ReturnedVectorReproduces ==
  (jolt.pc = "done" /\ ~IsNull(jolt.ret) /\ Length(jolt.machine.joltage) >= 1)
    => /\ DOMAIN Val(jolt.ret) = DOMAIN jolt.machine.buttons
       /\ \A b \in DOMAIN Val(jolt.ret) : Val(jolt.ret)[b] \in Nat
       /\ Reproduces(jolt.machine, Val(jolt.ret))

C3_Witness ==
  /\ jolt.pc = "done"
  /\ ~IsNull(jolt.ret)
  /\ Length(jolt.machine.joltage) >= 2
  /\ \A i \in DOMAIN jolt.machine.joltage : jolt.machine.joltage[i] >= 2
  /\ Len(jolt.calls) >= 3
  /\ Reproduces(jolt.machine, Val(jolt.ret))

\* C6: the reduction solver returns null exactly when no non-negative press
\* vector reproduces every counter.
C6_NullIffNoSolution ==
  jolt.pc = "done" => (IsNull(jolt.ret) <=> JoltSolutions(jolt.machine) = {})

C6_Witness ==
  /\ jolt.pc = "done"
  /\ IsNull(jolt.ret)
  /\ UntouchedPositive(jolt.machine)
  /\ Len(jolt.calls) >= 2

\* C10: with a counter of positive target that no button touches, the
\* reduction solver makes no recursive call on a reduced target.
C10_ShortCircuit ==
  UntouchedPositive(jolt.machine) => Len(jolt.calls) <= 1

(***************************************************************************)
(* Batch aggregator claims (SpecBatch).                                    *)
(***************************************************************************)
\* The machine has no solution for the sub-problem that fn solves.
NoSolution(fn, m) ==
  IF fn = "part1" THEN SatisfyingSubsets(m) = {} ELSE JoltTotals(m) = {}

\* The minimum for the sub-problem that fn solves.
Minimum(fn, m) ==
  IF fn = "part1" THEN BruteMinLights(m) ELSE MinOf(JoltTotals(m))

UnsolvableAt(s) == {k \in DOMAIN s.machines : NoSolution(s.fn, s.machines[k])}

\* C7: the aggregator fails at the first unsolvable machine of the batch: it
\* never returns a total, it solves the machines in order up to that one, it
\* throws as soon as that one has been solved, and it solves none after it.
C7_FailsAtFirstUnsolvable ==
  UnsolvableAt(batch) # {} =>
    LET first == MinOf(UnsolvableAt(batch))
    IN /\ batch.pc # "returned"
       /\ IsNull(batch.ret)
       /\ batch.i <= first
       /\ \A n \in 1..Len(batch.solved) :
            batch.solved[n] = n - 1 /\ batch.solved[n] <= first
       /\ batch.pc = "thrown" => (batch.i = first /\ Len(batch.solved) = first + 1)
       /\ Len(batch.solved) = first + 1 => batch.pc \in {"solving", "thrown"}

C7_Witness ==
  /\ batch.pc = "thrown"
  /\ batch.fn = "part2"
  /\ batch.total > 0
  /\ Len(batch.solved) = 2
  /\ Length(batch.machines) = 3
  /\ UnsolvableAt(batch) = {1, 2}

RECURSIVE SumOfMinima(_, _, _)
SumOfMinima(fn, machines, n) ==
  IF n <= 0 THEN 0
  ELSE Minimum(fn, machines[n - 1]) + SumOfMinima(fn, machines, n - 1)

\* C8: on a batch whose machines are all solvable the aggregator does not
\* throw, its running total is the sum of the minima of the machines solved
\* so far (toggle minima for solvePart1, minimum total presses for
\* solvePart2), whatever the other machines are, and it returns the sum over
\* the whole batch; the press vector of a machine without a joltage list sums
\* to 0.
C8_ReturnsSumOfMinima ==
  UnsolvableAt(batch) = {} =>
    /\ batch.pc # "thrown"
    /\ batch.pc \in {"loop", "returned"} =>
         batch.total = SumOfMinima(batch.fn, batch.machines, batch.i)
    /\ batch.pc = "returned" =>
         batch.ret =
           Some(SumOfMinima(batch.fn, batch.machines, Length(batch.machines)))
    /\ (batch.fn = "part2" /\ jolt.pc = "done"
          /\ Length(jolt.machine.joltage) = 0) =>
         (~IsNull(jolt.ret) /\ Sum(Val(jolt.ret)) = 0)

C8_Witness ==
  /\ batch.pc = "returned"
  /\ batch.fn = "part2"
  /\ Length(batch.machines) = 3
  /\ \E k \in DOMAIN batch.machines : Length(batch.machines[k].joltage) = 0
  /\ batch.machines[0] # batch.machines[1]
  /\ batch.ret = Some(5)

\* C9: on the fixture solvePart1 returns 7 and solvePart2 returns 33.
C9_Fixture ==
  batch.machines = Fixture =>
    /\ batch.pc # "thrown"
    /\ batch.pc = "returned" =>
         /\ batch.fn = "part1" => batch.ret = Some(7)
         /\ batch.fn = "part2" => batch.ret = Some(33)

C9_Witness ==
  /\ batch.machines = Fixture
  /\ batch.fn = "part2"
  /\ batch.pc = "returned"
  /\ batch.ret = Some(33)

\* The index of the first unsolvable machine of a batch given to fn.
FirstUnsolvable(fn, machines) ==
  MinOf({k \in DOMAIN machines : NoSolution(fn, machines[k])})

\* The error fn throws when the solver reports machines[k] unsolvable.
ReportedAt(fn, machines, k) ==
  LET s == [StartBatch(fn, machines) EXCEPT !.i = k, !.pc = "solving"]
  IN (IF fn = "part1" THEN Part1Resume(s, Unsolvable)
      ELSE IF fn = "part2" THEN Part2Resume(s, Null)
      ELSE Z3Part2Resume(s, Unsolvable)).error

\* The other batches fn fails on, at another position or on another machine.
FailsElsewhere(s) ==
  {ms \in ArraysUpTo(MaxBatch, Pool) :
     /\ \E k \in DOMAIN ms : NoSolution(s.fn, ms[k])
     /\ \/ FirstUnsolvable(s.fn, ms) # s.i
        \/ ms[FirstUnsolvable(s.fn, ms)] # s.machines[s.i]}

\* C11: the error the aggregator throws identifies the first unsolvable
\* machine: a batch whose first unsolvable machine is another one (another
\* position, or another machine) makes the same aggregator throw a different
\* error.
C11_ErrorIdentifiesMachine ==
  batch.pc = "thrown" =>
    \A ms \in FailsElsewhere(batch) :
      ReportedAt(batch.fn, ms, FirstUnsolvable(batch.fn, ms)) # batch.error

(***************************************************************************)
(* parseInput claims (SpecParse).                                          *)
(***************************************************************************)
\* The texts between an `open` and the next `close` of the line.
Enclosed(line, open, close) ==
  {SubSeq(line, p + 1, q - 1) :
     <<p, q>> \in {pq \in (1..Len(line)) \X (1..Len(line)) :
                     /\ pq[1] < pq[2]
                     /\ line[pq[1]] = open
                     /\ line[pq[2]] = close
                     /\ \A k \in (pq[1] + 1)..(pq[2] - 1) :
                          line[k] \notin {open, close}}}

\* Some index of the comma-separated list is empty or is no number.
BadIndexList(text) ==
  \E k \in 1..Len(Split(text, ",")) :
    LET index == Split(text, ",")[k]
    IN Len(index) = 0 \/ \E c \in 1..Len(index) : index[c] \notin Digits

\* Malformed Input: no delimited pattern, or a button group or a joltage list
\* with an index that is empty or no number.
Malformed(line) ==
  \/ Enclosed(line, "[", "]") = {}
  \/ \E text \in Enclosed(line, "(", ")") : BadIndexList(text)
  \/ \E text \in Enclosed(line, "{", "}") : BadIndexList(text)

\* C12: parseInput raises an error for every malformed line: it returns
\* machines only when no line of the input is malformed.
C12_MalformedRaises ==
  parse.pc = "returned" =>
    \A k \in DOMAIN parse.lines : ~Malformed(parse.lines[k])

(***************************************************************************)
(* Toggle solver claims on press counts and on the reduced matrix          *)
(* (SpecLights).                                                           *)
(***************************************************************************)
\* The press-count vectors: every button pressed 0..MaxPresses times.
PressCounts(m) == [DOMAIN m.buttons -> 0..MaxPresses]

\* Every light is toggled an odd number of times iff its target is ON.
TogglesToTarget(m, p) ==
  \A i \in DOMAIN m.target :
    (Cardinality({b \in DOMAIN m.buttons : i \in m.buttons[b] /\ p[b] % 2 = 1})
       % 2 = 1) = m.target[i]

ValidPressCounts(m) == {p \in PressCounts(m) : TogglesToTarget(m, p)}

\* C13: pressing a button more than once never helps: the value the toggle
\* solver returns is the minimum total number of presses over all press-count
\* vectors whose toggle parity is the target (and -1 exactly when there is
\* none), and every vector that attains it presses each button 0 or 1 times.
C13_RepeatedPressesNeverHelp ==
  lights.pc = "done" =>
    LET valid == ValidPressCounts(lights.machine)
    IN /\ lights.ret = Unsolvable <=> valid = {}
       /\ valid # {} =>
            /\ lights.ret = MinOf({Sum(p) : p \in valid})
            /\ \A p \in valid :
                 Sum(p) = lights.ret => \A b \in DOMAIN p : p[b] <= 1

C13_Witness ==
  /\ lights.pc = "done"
  /\ lights.ret >= 2
  /\ NumButtons(lights) >= 3
  /\ \E p \in ValidPressCounts(lights.machine) :
       /\ \E b \in DOMAIN p : p[b] >= 2
       /\ Sum(p) = lights.ret + 2
  /\ lights.ret = MinOf({Sum(p) : p \in ValidPressCounts(lights.machine)})

(***************************************************************************)
(* Parity reduction solver claims on the recursion (SpecJoltage).          *)
(***************************************************************************)
\* floor(log2(n)) for n >= 1.
Log2Floor(n) == CHOOSE k \in 0..n : Pow2(k) <= n /\ n < Pow2(k + 1)

MaxJoltageOf(m) == MaxOf({0} \cup {m.joltage[i] : i \in DOMAIN m.joltage})

\* The activation at nesting depth d is stack[d + 1].  Each one was called
\* from a non-zero target, on a vector of at most half of it per counter, so
\* at depth d every component is at most floor(joltage[i] / 2^d).
HalvedAtEveryLevel ==
  \A k \in 1..Len(jolt.stack) :
    /\ \A i \in DOMAIN jolt.machine.joltage :
         /\ 0 <= jolt.stack[k].tgt[i]
         /\ jolt.stack[k].tgt[i] <= jolt.machine.joltage[i] \div Pow2(k - 1)
    /\ k >= 2 =>
         /\ \E i \in DOMAIN jolt.machine.joltage : jolt.stack[k - 1].tgt[i] # 0
         /\ \A i \in DOMAIN jolt.machine.joltage :
              jolt.stack[k].tgt[i] <= jolt.stack[k - 1].tgt[i] \div 2

\* The nesting depth never exceeds floor(log2(max joltage)) + 1.
DepthBounded ==
  Len(jolt.stack) >= 2 =>
    Len(jolt.stack) - 1 <= Log2Floor(MaxJoltageOf(jolt.machine)) + 1

RECURSIVE Pow(_, _)
Pow(b, e) == IF e <= 0 THEN 1 ELSE b * Pow(b, e - 1)

\* The most activations a solve of m can nest.
RankDepth(m) ==
  IF MaxJoltageOf(m) = 0 THEN 1 ELSE Log2Floor(MaxJoltageOf(m)) + 2

\* Above the cost of every activation.
RankBase(m) == 3 * Shl1(Length(m.buttons)) + 4

\* What is left of the activation stack[k]: the patterns still to try, and
\* where in the iteration it is.
FrameCost(s, k) ==
  LET f == s.stack[k]
      left == Length(f.patterns) - f.i
  IN IF k < Len(s.stack) THEN 3 * left
     ELSE IF s.pc = "call" THEN 3 * Shl1(Length(s.machine.buttons)) + 3
     ELSE IF s.pc = "loop" THEN 3 * left + 2
     ELSE 1

\* A natural number that every step of the solver decreases: the costs of the
\* activations as the digits of a number in base RankBase, outermost first.
Rank(s) ==
  IF s.pc = "start" THEN Pow(RankBase(s.machine), RankDepth(s.machine))
  ELSE Sum([k \in 0..(Len(s.stack) - 1) |->
              FrameCost(s, k + 1)
                * Pow(RankBase(s.machine), RankDepth(s.machine) - k - 1)])

\* C14: the recursion terminates: every call made from a non-zero target is
\* on a vector of at most half of it per counter, the component i at depth d
\* is at most floor(joltage[i] / 2^d), the depth is at most
\* floor(log2(max joltage)) + 1, and every step of the solver decreases a
\* natural number, so that solveMachineJoltage returns.
C14_RecursionTerminates ==
  /\ [](HalvedAtEveryLevel /\ DepthBounded)
  /\ [][Rank(jolt') < Rank(jolt) /\ Rank(jolt') >= 0]_vars

C14_Witness ==
  /\ MaxJoltageOf(jolt.machine) >= 2
  /\ Len(jolt.stack) = Log2Floor(MaxJoltageOf(jolt.machine)) + 2
  /\ Length(jolt.machine.joltage) = 2
  /\ jolt.pc = "return"
  /\ \A i \in DOMAIN Top(jolt).tgt : Top(jolt).tgt[i] = 0
  /\ \E i \in DOMAIN jolt.machine.joltage : jolt.stack[2].tgt[i] = 1

(***************************************************************************)
(* Claims on repeated solves and on the memo (SpecBatch).                  *)
(***************************************************************************)
\* C15: solving the same machine twice yields the same result: whenever two
\* machines of a batch are equal, what the solver returned for one is what it
\* returned for the other (the same presses, or Unsolvable for both).
C15_SameMachineSameResult ==
  \A a, b \in 1..Len(batch.results) :
    batch.machines[a - 1] = batch.machines[b - 1] =>
      batch.results[a] = batch.results[b]

C15_Witness ==
  /\ batch.fn = "part2"
  /\ batch.pc = "returned"
  /\ Len(batch.results) = 3
  /\ batch.machines[0] = batch.machines[2]
  /\ batch.machines[1].joltage = Arr(<<1, 1>>)
  /\ batch.machines[0].joltage = Arr(<<3, 2>>)
  /\ batch.results[1] = batch.results[3]
  /\ Sum(Val(batch.results[1])) = 3

\* Every entry of the memo is the result for a target solveRecursive has been
\* called with in this call, keyed by its join.
WrittenInThisCall ==
  \A key \in DOMAIN jolt.memo :
    \E n \in 1..Len(jolt.calls) : key = Join(jolt.calls[n])

\* Every entry of the memo is right for the machine being solved: the least
\* total that brings the target of its key to zero, or null when there is none.
RightForThisMachine ==
  \A n \in 1..Len(jolt.calls) :
    Join(jolt.calls[n]) \in DOMAIN jolt.memo =>
      LET entry == jolt.memo[Join(jolt.calls[n])]
          totals == SearchTotals(jolt.machine, 0, jolt.calls[n])
      IN IF totals = {} THEN IsNull(entry.cost) /\ IsNull(entry.solution)
         ELSE entry.cost = Some(MinOf(totals))

\* What solvePart2 got for each machine is what the machine alone determines.
IndependentOfBatch ==
  batch.fn = "part2" =>
    \A k \in 1..Len(batch.results) :
      LET totals == JoltTotals(batch.machines[k - 1])
      IN IF totals = {} THEN IsNull(batch.results[k])
         ELSE /\ ~IsNull(batch.results[k])
              /\ Sum(Val(batch.results[k])) = MinOf(totals)

\* C16: the memo is scoped to one call of solveMachineJoltage: it is empty
\* when the call starts, every entry it holds was written in this call and is
\* right for this machine, nothing of the call is left once solvePart2 has the
\* result, and the result of a machine does not depend on the machines solved
\* before it.
C16_MemoScopedToCall ==
  /\ (jolt.pc = "call" /\ Len(jolt.calls) = 1) => jolt.memo = EmptyArray
  /\ WrittenInThisCall
  /\ RightForThisMachine
  /\ batch.pc \in {"loop", "returned", "thrown"} => jolt = IdleJolt
  /\ IndependentOfBatch

C16_Witness ==
  /\ batch.fn = "part2"
  /\ batch.pc = "solving"
  /\ Len(batch.results) = 1
  /\ batch.machines[0].joltage = Arr(<<1, 1>>)
  /\ batch.results[1] = Some(Arr(<<1>>))
  /\ jolt.machine.joltage = Arr(<<3, 2>>)
  /\ <<"1", ",", "1">> \in DOMAIN jolt.memo
  /\ jolt.memo[<<"1", ",", "1">>].solution = Some(Arr(<<0, 0, 1>>))

(***************************************************************************)
(* Claims on the execution of the programs (SpecProgram).                  *)
(***************************************************************************)
InProgress(s) == s.pc \in {"loop", "solving"}

\* The solvePart1 or solvePart2 that thread t called has not returned yet.
Aggregating(t) ==
  \/ prog.pc[t] \in {"part1wait", "part2wait"} /\ InProgress(batch)
  \/ InProgress(prog.chain[t])

\* No suspension: the caller of an aggregation in progress is on the stack.
RunsToCompletion ==
  \A t \in Threads :
    Aggregating(t) =>
      \E k \in DOMAIN prog.stack : prog.stack[k] = Thread(t)

\* No blocking: no activation waits for z3InitPromise or for opt.check().
NoBlocking ==
  /\ prog.waitInit = <<>>
  /\ \A t \in Threads : prog.solve[t] \notin {"awaitInit", "awaitCheck"}

\* No interleaving: the test run and the script never aggregate at once, and
\* the script does nothing before the test run is over.
NoInterleaving ==
  /\ ~(Aggregating("script") /\ Aggregating("test"))
  /\ prog.pc["script"] \notin {"test", "parse"} => prog.pc["test"] = "done"

\* C17: all computation is single-threaded and synchronous: an aggregation
\* and its machine solves run to completion without suspension or blocking,
\* and nothing else of the program executes while one is in progress.
C17_Synchronous == RunsToCompletion /\ NoBlocking /\ NoInterleaving

(***************************************************************************)
(* Claims on both solvers (SpecSolvers): one call of either solver.        *)
(***************************************************************************)
SolversInit == LightsInit \/ JoltInit

SolversNext == LightsNext \/ JoltNext

SpecSolvers == SolversInit /\ [][SolversNext]_vars

AllOff(m) == \A i \in DOMAIN m.target : ~m.target[i]

AllZero(m) == \A i \in DOMAIN m.joltage : m.joltage[i] = 0

\* C18: zero presses is a result, not Unsolvable: on an all-OFF target (no
\* lights or no buttons included) the toggle solver returns 0, not -1, and on
\* an all-zero joltage vector with at least one counter the reduction solver
\* returns the all-zero press vector of length B, at cost 0, not null.
C18_ZeroIsNotUnsolvable ==
  /\ (lights.pc = "done" /\ AllOff(lights.machine)) =>
       lights.ret = 0 /\ lights.ret # Unsolvable
  /\ (jolt.pc = "done" /\ Length(jolt.machine.joltage) >= 1
        /\ AllZero(jolt.machine)) =>
       /\ ~IsNull(jolt.ret)
       /\ jolt.ret = Some(Zeros(Length(jolt.machine.buttons)))
       /\ jolt.result.cost = Some(0)

C18_Witness ==
  /\ jolt.pc = "done"
  /\ jolt.machine.joltage = Arr(<<0, 0>>)
  /\ Length(jolt.machine.buttons) = 2
  /\ jolt.ret = Some(Arr(<<0, 0>>))

\* No step of a solver writes the Machine it was called with.
MachineKept ==
  /\ lights'.machine = lights.machine
  /\ jolt'.machine = jolt.machine

\* No step writes the target of an activation of solveRecursive.
TargetsKept ==
  \A k \in 1..Len(jolt.stack) :
    k <= Len(jolt'.stack) => jolt'.stack[k].tgt = jolt.stack[k].tgt

\* The outermost activation reads machine.joltage itself.
RootIsJoltage == jolt.stack # <<>> => jolt.stack[1].tgt = jolt.machine.joltage

\* C19: neither solver mutates its input: from the call to the return the
\* Machine's target, buttons and joltage stay element for element what they
\* were; swaps and XORs write the matrix only, and applying a pattern builds
\* a new target and leaves the targets of the activations as they are.
C19_InputNotMutated ==
  /\ [][MachineKept /\ TargetsKept]_vars
  /\ []RootIsJoltage

C19_Witness ==
  /\ jolt.pc = "done"
  /\ jolt.machine.joltage = Arr(<<2, 2>>)
  /\ Len(jolt.calls) >= 3
  /\ ~IsNull(jolt.ret)

(***************************************************************************)
(* Toggle solver claims on the row reduction (SpecLights).                 *)
(***************************************************************************)
\* The assignment x satisfies one row [a | b] over GF(2).
RowHolds(row, x, nb) ==
  (Cardinality({c \in 0..(nb - 1) : row[c] /\ x[c]}) % 2 = 1) = row[nb]

SolutionsOf(mx, nb) ==
  {x \in [0..(nb - 1) -> BOOLEAN] : \A r \in DOMAIN mx : RowHolds(mx[r], x, nb)}

\* The augmented system as built from the machine.
Original(s) == BuildMatrix(s).matrix

\* Every assignment satisfies both systems or neither.
SameSystem(mx, s) ==
  LET original == Original(s)
  IN \A x \in [0..(NumButtons(s) - 1) -> BOOLEAN] :
       (\A r \in DOMAIN mx : RowHolds(mx[r], x, NumButtons(s)))
         = (\A r \in DOMAIN original : RowHolds(original[r], x, NumButtons(s)))

\* The row reduction loop is over.
Reduced(s) ==
  \/ s.pc \in {"enumerate", "done"}
  \/ s.pc = "eliminate" /\ ~ElimGuard(s)

PivotsIncrease(s) ==
  /\ Length(s.pivotCol) = s.rank
  /\ \A a, b \in DOMAIN s.pivotCol : a < b => s.pivotCol[a] < s.pivotCol[b]

PivotColumnsUnit(s) ==
  \A r \in DOMAIN s.pivotCol : \A q \in DOMAIN s.matrix :
    s.matrix[q][s.pivotCol[r]] = (q = r)

LeftOfPivotZero(s) ==
  \A r \in DOMAIN s.pivotCol : \A c \in 0..(s.pivotCol[r] - 1) : ~s.matrix[r][c]

BelowRankZero(s) ==
  \A r \in s.rank..(NumLights(s) - 1) : \A c \in 0..(NumButtons(s) - 1) :
    ~s.matrix[r][c]

\* The matrix of one elimination once the rows below k have been visited.
XorUpTo(mx, rank, col, k) ==
  [r \in DOMAIN mx |->
     IF r < k /\ r # rank /\ mx[r][col]
       THEN [c \in DOMAIN mx[r] |-> mx[r][c] # mx[rank][c]]
       ELSE mx[r]]

\* The swap and every XOR of the iteration about to run keep the solutions:
\* the matrix after the swap, and after the XOR into each row that has a 1 in
\* the pivot column.
StepsKeepSolutions(s) ==
  (s.pc = "eliminate" /\ ElimGuard(s) /\ FindPivotRow(s) # 0 - 1) =>
    LET swapped == SwapRows(s.matrix, s.rank, FindPivotRow(s))
        xored == {r \in DOMAIN swapped : r # s.rank /\ swapped[r][s.col]}
    IN /\ FindPivotRow(s) # s.rank => SameSystem(swapped, s)
       /\ \A r \in xored : SameSystem(XorUpTo(swapped, s.rank, s.col, r + 1), s)
       /\ XorUpTo(swapped, s.rank, s.col, NumLights(s)) =
            EliminateColumn(swapped, s.rank, s.col)

\* C20: after the row reduction loop the matrix is in reduced row echelon
\* form: the pivot columns increase strictly, a pivot column holds a 1 in its
\* pivot row and 0 elsewhere, a pivot row is 0 left of its pivot and the rows
\* from `rank` on have no coefficient; and after every swap and XOR the
\* matrix has the boolean solutions of the original augmented system.
C20_ReducedRowEchelon ==
  /\ Reduced(lights) =>
       /\ PivotsIncrease(lights)
       /\ PivotColumnsUnit(lights)
       /\ LeftOfPivotZero(lights)
       /\ BelowRankZero(lights)
  /\ lights.pc = "eliminate" => SameSystem(lights.matrix, lights)
  /\ StepsKeepSolutions(lights)

C20_Witness ==
  /\ lights.pc = "enumerate"
  /\ lights.rank = 2
  /\ lights.pivotCol = Arr(<<0, 2>>)
  /\ lights.matrix # Original(lights)

(***************************************************************************)
(* Toggle solver claims on the enumeration (SpecSolvers).                  *)
(***************************************************************************)
\* The assignments the enumeration builds, one per mask.
Enumerated(s) ==
  {SolutionFor(s, mask) : mask \in 0..(Shl1(Length(s.freeVars)) - 1)}

\* C21: the free variables are F = B - rank in number; on a consistent system
\* the 2^F assignments of the enumeration are pairwise distinct and are
\* exactly the boolean assignments that satisfy the system, each trial builds
\* the assignment of its mask, and the minimum kept over the trials is the
\* minimum weight over the whole solution set.
C21_EnumerationIsSolutionSet ==
  /\ lights.pc = "enumerate" =>
       /\ Length(lights.freeVars) = NumButtons(lights) - lights.rank
       /\ lights.mask > 0 => lights.solution = SolutionFor(lights, lights.mask - 1)
  /\ (lights.pc = "enumerate" /\ lights.mask = 0) =>
       /\ Cardinality(Enumerated(lights)) = Shl1(Length(lights.freeVars))
       /\ Enumerated(lights) = SolutionsOf(Original(lights), NumButtons(lights))
  /\ (lights.pc = "done" /\ lights.ret # Unsolvable) =>
       lights.ret = MinOf({Presses(x) :
                       x \in SolutionsOf(Original(lights), NumButtons(lights))})

C21_Witness ==
  /\ lights.pc = "enumerate"
  /\ NumButtons(lights) = 3
  /\ lights.rank = 1
  /\ lights.mask = 4
  /\ lights.minPresses = 1
  /\ Presses(lights.solution) = 3

(***************************************************************************)
(* Parity reduction solver claims on the pattern loop (SpecJoltage).       *)
(***************************************************************************)
\* The selected buttons overshoot no counter and leave an even remainder.
ValidMask(m, tgt, mask) ==
  \A i \in DOMAIN tgt :
    /\ Touching(mask, m, i) <= tgt[i]
    /\ (tgt[i] - Touching(mask, m, i)) % 2 = 0

ValidMasks(m, tgt) ==
  {mask \in 0..(Pow2(Length(m.buttons)) - 1) : ValidMask(m, tgt, mask)}

Halved(m, tgt, mask) ==
  [i \in DOMAIN tgt |-> (tgt[i] - Touching(mask, m, i)) \div 2]

\* The activations that are in their pattern loop.
Looping(s) ==
  {k \in 1..Len(s.stack) : k < Len(s.stack) \/ s.pc = "loop"}

\* The patterns of a looping activation: pairwise distinct, every valid mask
\* among them, none with an odd remainder; and the activation it has called
\* was called on a valid mask, with the halved remainder.
PatternTableRight(s) ==
  \A k \in Looping(s) :
    LET f == s.stack[k]
        table == {f.patterns[j] : j \in DOMAIN f.patterns}
    IN /\ \E i \in DOMAIN f.tgt : f.tgt[i] # 0
       /\ Cardinality(table) = Length(f.patterns)
       /\ ValidMasks(s.machine, f.tgt) \subseteq table
       /\ \A mask \in table : \A i \in DOMAIN f.tgt :
            (f.tgt[i] - Touching(mask, s.machine, i)) % 2 = 0
       /\ k < Len(s.stack) =>
            /\ f.i \in DOMAIN f.patterns
            /\ ValidMask(s.machine, f.tgt, f.patterns[f.i])
            /\ s.stack[k + 1].tgt = Halved(s.machine, f.tgt, f.patterns[f.i])

\* An iteration recurses exactly on a valid mask and otherwise moves on; a
\* return moves the caller on; the loop ends after the last pattern only.
PatternLoopRight ==
  /\ (jolt.pc = "loop" /\ LoopGuard(jolt)) =>
       IF ValidMask(jolt.machine, Top(jolt).tgt, Top(jolt).patterns[Top(jolt).i])
         THEN jolt'.pc = "call" /\ Len(jolt'.stack) = Len(jolt.stack) + 1
         ELSE jolt'.pc = "loop" /\ Top(jolt').i = Top(jolt).i + 1
  /\ (jolt.pc = "return" /\ Len(jolt.stack) > 1) =>
       Top(jolt').i = jolt.stack[Len(jolt.stack) - 1].i + 1
  /\ (jolt.pc = "loop" /\ jolt'.pc = "return") =>
       Top(jolt).i = Length(Top(jolt).patterns)

\* C22: at each level on a non-zero target the recursive calls are made for
\* exactly the masks whose contribution is at most the target and leaves an
\* even difference on every counter, each on the halved difference; a
\* pattern of the parity table is never rejected for an odd difference.
C22_RecursesOnValidPatterns ==
  /\ []PatternTableRight(jolt)
  /\ [][PatternLoopRight]_vars

C22_Witness ==
  /\ jolt.pc = "call"
  /\ Len(jolt.stack) = 2
  /\ jolt.stack[2].tgt # jolt.stack[1].tgt
  /\ \E j \in DOMAIN jolt.stack[1].patterns :
       ~ValidMask(jolt.machine, jolt.stack[1].tgt, jolt.stack[1].patterns[j])

\* The pattern loop of the innermost activation is over.
Finished(s) ==
  /\ s.stack # <<>>
  /\ \/ s.pc = "loop" /\ ~LoopGuard(s)
     \/ s.pc = "return" /\ Top(s).key # <<>>

\* What the recursive call for `mask` returned: the base case, or the entry
\* the call left in the memo.
SubResult(s, tgt, mask) ==
  LET newTarget == Halved(s.machine, tgt, mask)
  IN IF \A i \in DOMAIN newTarget : newTarget[i] = 0
       THEN [cost |-> Some(0), solution |-> Some(Zeros(Length(s.machine.buttons)))]
       ELSE s.memo[Join(newTarget)]

\* The valid masks whose recursive call succeeded.
Succeeded(s, tgt) ==
  {mask \in ValidMasks(s.machine, tgt) : ~IsNull(SubResult(s, tgt, mask).cost)}

PopCount(mask, nb) == Cardinality({b \in 0..(nb - 1) : Bit(mask, b) = 1})

CostThrough(s, tgt, mask) ==
  PopCount(mask, Length(s.machine.buttons))
    + 2 * Val(SubResult(s, tgt, mask).cost)

\* C23: for a non-zero target the result of solveRecursive has the minimum,
\* over the valid patterns whose recursive call succeeds, of popcount(pattern)
\* + 2 * recursiveCost as its cost, and as its press vector, for a pattern of
\* that cost and its sub-solution, 2 * subSolution[b] + (bit b of the pattern)
\* per button; patterns whose call fails are discarded, and with none left
\* the result is null.
C23_BestOverValidPatterns ==
  Finished(jolt) =>
    LET f == Top(jolt)
        ok == Succeeded(jolt, f.tgt)
    IN /\ jolt.pc = "return" => jolt.result = f.best
       /\ ok = {} => f.best = NullResult
       /\ ok # {} =>
            /\ f.best.cost =
                 Some(MinOf({CostThrough(jolt, f.tgt, mask) : mask \in ok}))
            /\ \E mask \in ok :
                 /\ CostThrough(jolt, f.tgt, mask) = Val(f.best.cost)
                 /\ f.best.solution =
                      Some([b \in DOMAIN jolt.machine.buttons |->
                              2 * Val(SubResult(jolt, f.tgt, mask).solution)[b]
                                + Bit(mask, b)])

C23_Witness ==
  /\ jolt.pc = "return"
  /\ Len(jolt.stack) = 1
  /\ Top(jolt).key # <<>>
  /\ Cardinality(Succeeded(jolt, Top(jolt).tgt)) >= 1
  /\ \E mask \in ValidMasks(jolt.machine, Top(jolt).tgt) :
       mask \notin Succeeded(jolt, Top(jolt).tgt)
  /\ ~IsNull(jolt.result.cost)
  /\ Val(jolt.result.cost) >= 2

(***************************************************************************)
(* Parity reduction solver claims on the memo (SpecJoltage).               *)
(***************************************************************************)
NonZero(tgt) == \E i \in DOMAIN tgt : tgt[i] # 0

\* No activation is in its pattern loop on a target that is stored, and no
\* two are on the same target.
NoLoopOnStored(s) ==
  \A k \in Looping(s) :
    /\ Join(s.stack[k].tgt) \notin DOMAIN s.memo
    /\ \A j \in Looping(s) : j # k => s.stack[j].tgt # s.stack[k].tgt

\* An entry of the memo stays, with its value.
MemoKept ==
  \A key \in DOMAIN jolt.memo :
    key \in DOMAIN jolt'.memo /\ jolt'.memo[key] = jolt.memo[key]

\* A call on a stored target returns the entry: no loop, no recursion.
HitReturnsStored ==
  (jolt.pc = "call" /\ NonZero(Top(jolt).tgt)
     /\ Join(Top(jolt).tgt) \in DOMAIN jolt.memo) =>
    /\ jolt'.pc = "return"
    /\ jolt'.result = jolt.memo[Join(Top(jolt).tgt)]
    /\ jolt'.stack = jolt.stack
    /\ jolt'.calls = jolt.calls

\* A pattern loop that ends stores its result under its target.
LoopStores ==
  (jolt.pc = "loop" /\ jolt'.pc = "return") =>
    /\ Join(Top(jolt).tgt) \in DOMAIN jolt'.memo
    /\ jolt'.memo[Join(Top(jolt).tgt)] = jolt'.result

\* C24: within one solveMachineJoltage the pattern loop runs at most once per
\* distinct non-zero target: it runs only on a target that is not stored,
\* stores its result when it ends, a later call on an equal vector returns
\* the stored Result without recursing, and an entry of the memo, once
\* written, is never overwritten or changed.
C24_MemoPreventsRecomputation ==
  /\ []NoLoopOnStored(jolt)
  /\ [][MemoKept /\ HitReturnsStored /\ LoopStores]_vars

C24_Witness ==
  /\ jolt.pc = "return"
  /\ Len(jolt.stack) = 2
  /\ Top(jolt).key = <<>>
  /\ NonZero(Top(jolt).tgt)
  /\ Cardinality({k \in DOMAIN jolt.calls : jolt.calls[k] = Top(jolt).tgt}) = 2
  /\ jolt.result = jolt.memo[Join(Top(jolt).tgt)]

\* A Result for the target tgt: null, or a press vector of the given cost
\* that brings every counter to its entry of tgt.
ResultFits(m, tgt, r) ==
  /\ IsNull(r.cost) <=> IsNull(r.solution)
  /\ ~IsNull(r.cost) =>
       LET solution == Val(r.solution)
       IN /\ DOMAIN solution = DOMAIN m.buttons
          /\ \A b \in DOMAIN solution : solution[b] \in Nat
          /\ Sum(solution) = Val(r.cost)
          /\ \A i \in DOMAIN tgt :
               Sum([b \in DOMAIN m.buttons |->
                      IF i \in m.buttons[b] THEN solution[b] ELSE 0]) = tgt[i]

\* The target vector a memo key stands for.
TargetOfKey(s, key) ==
  CHOOSE tgt \in {s.calls[k] : k \in DOMAIN s.calls} : Join(tgt) = key

\* C25: every Result that solveRecursive returns, keeps as its best or stores
\* in the memo has cost and solution both null or both non-null; a non-null
\* solution has one natural number per button, sums to the cost, and brings
\* every counter to the entry of the target vector the Result belongs to; the
\* press vector solveMachineJoltage returns is the solution of the outermost
\* Result, so its sum is that Result's cost.
C25_ResultsConsistent ==
  /\ jolt.pc = "return" => ResultFits(jolt.machine, Top(jolt).tgt, jolt.result)
  /\ \A k \in Looping(jolt) :
       ResultFits(jolt.machine, jolt.stack[k].tgt, jolt.stack[k].best)
  /\ \A key \in DOMAIN jolt.memo :
       /\ \E k \in DOMAIN jolt.calls : Join(jolt.calls[k]) = key
       /\ ResultFits(jolt.machine, TargetOfKey(jolt, key), jolt.memo[key])
  /\ (jolt.pc = "done" /\ Length(jolt.machine.joltage) > 0) =>
       /\ jolt.ret = jolt.result.solution
       /\ ~IsNull(jolt.ret) => Sum(Val(jolt.ret)) = Val(jolt.result.cost)

C25_Witness ==
  /\ jolt.pc = "return"
  /\ Len(jolt.stack) = 2
  /\ Length(jolt.machine.buttons) = 2
  /\ ~IsNull(jolt.result.cost)
  /\ Val(jolt.result.cost) = 1
  /\ \E key \in DOMAIN jolt.memo : ~IsNull(jolt.memo[key].solution)

(***************************************************************************)
(* Toggle solver claims on the width of the enumeration (SpecLightsWide).  *)
(***************************************************************************)
\* C26: whatever the numbers of buttons and of free variables, 31 and more
\* included, the toggle solver returns -1 or an integer in 0..B, never the
\* initial Infinity: the loop bounded by `1 << F` visits mask 0, and with a
\* free variable it visits more than one mask.
C26_ReturnsPressCount ==
  /\ lights.pc = "done" =>
       lights.ret = Unsolvable \/ lights.ret \in 0..NumButtons(lights)
  /\ (lights.pc = "done" /\ lights.ret # Unsolvable) =>
       /\ lights.mask >= 1
       /\ Length(lights.freeVars) >= 1 => lights.mask >= 2

(***************************************************************************)
(* A UnionFind of any size and every sequence of calls of its methods.     *)
(***************************************************************************)
Elements(u) == DOMAIN u.parent

UnionFindInit ==
  /\ uf \in {NewUnionFind(size) : size \in 0..MaxSize}
  /\ lights = IdleLights
  /\ jolt = IdleJolt
  /\ batch = IdleBatch
  /\ parse = IdleParse
  /\ prog = IdleProg
  /\ day11 = IdleDay11
  /\ dial = IdleDial

CallFind ==
  /\ \E n \in Elements(uf) : uf' = [find(uf, n) EXCEPT !.call = <<"find", n>>]
  /\ UNCHANGED <<lights, jolt, batch, parse, prog, day11, dial>>

CallUnion ==
  /\ \E x, y \in Elements(uf) :
       uf' = [union(uf, x, y) EXCEPT !.call = <<"union", x, y>>]
  /\ UNCHANGED <<lights, jolt, batch, parse, prog, day11, dial>>

CallIsConnected ==
  /\ uf' = [isConnected(uf) EXCEPT !.call = <<"isConnected">>]
  /\ UNCHANGED <<lights, jolt, batch, parse, prog, day11, dial>>

CallGetComponentSizes ==
  /\ uf' = [getComponentSizes(uf) EXCEPT !.call = <<"getComponentSizes">>]
  /\ UNCHANGED <<lights, jolt, batch, parse, prog, day11, dial>>

UnionFindNext ==
  \/ CallFind
  \/ CallUnion
  \/ CallIsConnected
  \/ CallGetComponentSizes

SpecUnionFind == UnionFindInit /\ [][UnionFindNext]_vars

\* The element that k steps along the parents from e lead to.
RECURSIVE Follow(_, _, _)
Follow(parent, e, k) == IF k = 0 THEN e ELSE Follow(parent, parent[e], k - 1)

Root(u, e) == Follow(u.parent, e, Cardinality(Elements(u)))

Roots(u) == {e \in Elements(u) : u.parent[e] = e}

IsForest(u) ==
  /\ \A e \in Elements(u) : u.parent[e] \in Elements(u)
  /\ \A e \in Elements(u) : Root(u, e) \in Roots(u)

SameComponent(u, a, b) == Root(u, a) = Root(u, b)

\* The step uf -> uf' leaves every component as it was.
ComponentsKept ==
  /\ uf'.componentCount = uf.componentCount
  /\ \A a, b \in Elements(uf) : SameComponent(uf', a, b) <=> SameComponent(uf, a, b)

\* The step uf -> uf' makes one component of the components of x and of y.
ComponentsJoined(x, y) ==
  /\ uf'.componentCount = uf.componentCount - 1
  /\ \A a, b \in Elements(uf) :
       SameComponent(uf', a, b) <=>
         \/ SameComponent(uf, a, b)
         \/ SameComponent(uf, a, x) /\ SameComponent(uf, b, y)
         \/ SameComponent(uf, a, y) /\ SameComponent(uf, b, x)

FindRight ==
  uf'.call[1] = "find" =>
    /\ uf'.ret = Root(uf, uf'.call[2])
    /\ ComponentsKept

UnionRight ==
  uf'.call[1] = "union" =>
    LET x == uf'.call[2]
        y == uf'.call[3]
    IN /\ uf'.ret = (Root(uf, x) # Root(uf, y))
       /\ IF uf'.ret THEN ComponentsJoined(x, y) ELSE ComponentsKept

OneRoot(u) == \E r \in Roots(u) : \A e \in Elements(u) : Root(u, e) = r

\* C27: whatever was called before, following the parents from any element
\* ends in an element that is its own parent, componentCount is the number of
\* such roots, and isConnected() answers true exactly when one root is the
\* root of every element; a find returns the root and joins nothing, and a
\* union(x, y) returns true exactly when x and y had different roots, then
\* with one component less, made of the two, and otherwise with every
\* component as it was.
C27_UnionFindInvariants ==
  /\ [](/\ IsForest(uf)
        /\ uf.componentCount = Cardinality(Roots(uf))
        /\ isConnected(uf).ret <=> OneRoot(uf))
  /\ [][FindRight /\ UnionRight]_vars

\* A union has just joined two trees of rank 1 under one root of rank 2, the
\* last two components of a UnionFind of the largest size.
C27_Witness ==
  /\ uf.call[1] = "union"
  /\ uf.ret = TRUE
  /\ \E e \in Elements(uf) : uf.rank[e] = 2
  /\ uf.componentCount = 1
  /\ Cardinality(Elements(uf)) = MaxSize

(***************************************************************************)
(* solvePart2 of day 11 on every graph over Devices whose output lists     *)
(* name up to MaxOutputs devices, each once and none of them "svr" (which  *)
(* is visited throughout, so that such an output counts no path).          *)
(***************************************************************************)
OutputLists ==
  {q \in UNION {[1..k -> Devices \ {"svr"}] : k \in 0..MaxOutputs} :
     \A i, j \in 1..Len(q) : i # j => q[i] # q[j]}

Graphs == UNION {[S -> OutputLists] : S \in SUBSET (Devices \ {"out"})}

Day11Init ==
  /\ day11 \in {[IdleDay11 EXCEPT !.pc = "start", !.graph = g] : g \in Graphs}
  /\ lights = IdleLights
  /\ jolt = IdleJolt
  /\ batch = IdleBatch
  /\ parse = IdleParse
  /\ prog = IdleProg
  /\ uf = IdleUF
  /\ dial = IdleDial

Day11SolvePart2 ==
  /\ day11.pc = "start"
  /\ LET r == countPaths(day11.graph, <<>>, "svr", {}, {})
     IN day11' = IF "svr" \in DOMAIN day11.graph
                   THEN [day11 EXCEPT !.pc = "returned", !.memo = r.memo,
                                      !.result = Some(r.total)]
                   ELSE [day11 EXCEPT !.pc = "returned", !.result = Some(0)]
  /\ UNCHANGED <<lights, jolt, batch, parse, prog, uf, dial>>

Day11Next == Day11SolvePart2

SpecDay11 == Day11Init /\ [][Day11Next]_vars

\* The recursion of countPaths with the memo removed.
RECURSIVE PlainCount(_, _, _, _)
RECURSIVE PlainSum(_, _, _, _, _)
PlainCount(graph, node, visited, visitedRequired) ==
  IF node = "out"
    THEN IF "dac" \in visitedRequired /\ "fft" \in visitedRequired THEN 1 ELSE 0
  ELSE IF node \in visited THEN 0
  ELSE IF node \notin DOMAIN graph \/ Len(graph[node]) = 0 THEN 0
  ELSE PlainSum(graph, graph[node], 1, visited \cup {node},
                IF node \in requiredNodes THEN visitedRequired \cup {node}
                                          ELSE visitedRequired)

PlainSum(graph, outputs, i, visited, visitedRequired) ==
  IF i > Len(outputs)
    THEN 0
    ELSE PlainCount(graph, outputs[i], visited, visitedRequired)
           + PlainSum(graph, outputs, i + 1, visited, visitedRequired)

PlainResult(graph) ==
  IF "svr" \in DOMAIN graph THEN PlainCount(graph, "svr", {}, {}) ELSE 0

Range(q) == {q[i] : i \in 1..Len(q)}

\* The simple paths of the graph that begin with p and end in "out".
RECURSIVE PathsFrom(_, _)
PathsFrom(graph, p) ==
  LET last == p[Len(p)]
  IN IF last = "out" THEN {p}
     ELSE IF last \notin DOMAIN graph THEN {}
     ELSE UNION {PathsFrom(graph, Append(p, n)) :
                   n \in Range(graph[last]) \ Range(p)}

RequiredPaths(graph) ==
  {p \in PathsFrom(graph, <<"svr">>) : requiredNodes \subseteq Range(p)}

HasCycle(graph) ==
  \E p \in UNION {[1..k -> DOMAIN graph] : k \in 1..Cardinality(DOMAIN graph)} :
    /\ \A i \in 1..(Len(p) - 1) : p[i + 1] \in Range(graph[p[i]])
    /\ p[1] \in Range(graph[p[Len(p)]])

\* On a graph without a cycle the memo changes nothing.
AcyclicMemoTransparent ==
  (day11.pc = "returned" /\ ~HasCycle(day11.graph)) =>
    Val(day11.result) = PlainResult(day11.graph)

\* C28: whatever the graph, cycles or none, the value solvePart2 returns is the
\* value its recursion returns without the memo, which is the number of simple
\* paths from "svr" to "out" through both "dac" and "fft".
C28_MemoTransparent ==
  day11.pc = "returned" =>
    /\ Val(day11.result) = PlainResult(day11.graph)
    /\ PlainResult(day11.graph) = Cardinality(RequiredPaths(day11.graph))

(***************************************************************************)
(* calculatePasswordPart1 and calculatePasswordPart2 on every list of up   *)
(* to MaxRotations rotations with distances up to MaxDistance: forEach     *)
(* hands the rotations over one at a time, and the list ends when the      *)
(* function returns.                                                       *)
(***************************************************************************)
Directions == {"L", "R"}

Distances == 0..MaxDistance

DialInit ==
  /\ dial \in {StartDial(fn) : fn \in {"calculatePasswordPart1", "calculatePasswordPart2"}}
  /\ lights = IdleLights
  /\ jolt = IdleJolt
  /\ batch = IdleBatch
  /\ parse = IdleParse
  /\ prog = IdleProg
  /\ uf = IdleUF
  /\ day11 = IdleDay11

Part1Rotation ==
  /\ dial.fn = "calculatePasswordPart1"
  /\ dial.pc = "forEach"
  /\ dial.done < MaxRotations
  /\ \E direction \in Directions, distance \in Distances :
       dial' = RotatePart1(dial, direction, distance)
  /\ UNCHANGED <<lights, jolt, batch, parse, prog, uf, day11>>

Part2Rotation ==
  /\ dial.fn = "calculatePasswordPart2"
  /\ dial.pc = "forEach"
  /\ dial.done < MaxRotations
  /\ \E direction \in Directions, distance \in Distances :
       dial' = RotatePart2(dial, direction, distance)
  /\ UNCHANGED <<lights, jolt, batch, parse, prog, uf, day11>>

DialReturn ==
  /\ dial.pc = "forEach"
  /\ dial' = ReturnZeroCount(dial)
  /\ UNCHANGED <<lights, jolt, batch, parse, prog, uf, day11>>

DialNext ==
  \/ Part1Rotation
  \/ Part2Rotation
  \/ DialReturn

SpecDial == DialInit /\ [][DialNext]_vars

\* C29: in both functions the position stored after every rotation, left or
\* right and of whatever distance, is one of 0..99.
C29_PositionOnDial == dial.fn # "none" => dial.position \in 0..99

\* The remainder keeps the position within -99..99; only below 0 can it
\* leave the dial.
PositionWithinRemainder == dial.position \in (0 - 99)..99

====
